---- MODULE Spec2Model ----
(***************************************************************************)
(* A model of minifykit: the minification actions (regular-expression      *)
(* substitutions over a text), the composite that chains them, the action  *)
(* factory, the language minifiers with their cached composite, and the    *)
(* file layer: the file processor, the minification job of one file and    *)
(* the project minifier that walks a directory tree.                       *)
(*                                                                         *)
(* A text is a sequence of one-character strings.                          *)
(***************************************************************************)
EXTENDS Integers, Sequences, FiniteSets, TLC

VARIABLES
    code,       \* the text handed to the last apply / minify call
    result,     \* the text that call returned
    op,         \* the last call made: a record with its name and arguments
    composite,  \* a CompositeMinificationAction object: [actions |-> list]
    actions,    \* the caller's list given to create_custom_minifier
    minifier,   \* a language minifier object: toggles and cached _action
    nextId,     \* allocation counter: the identity of the next object built
    made,       \* what create_action returned (None when it raised)
    error,      \* the exception the last call raised (None when it returned)
    fs,         \* the file system: the content of each file, the paths that
                \* cannot be written
    job,        \* a MinificationJob object
    project     \* a ProjectMinifier object

vars ==
    <<code, result, op, composite, actions, minifier, nextId, made, error,
      fs, job, project>>

\* ------------------------------------------------------------------ bounds

MaxLen == 4          \* longest generated input text of a basic action
MaxPipelineLen == 3  \* longest generated input text of a pipeline
MaxActions == 3      \* longest action list of a composite
MaxObjects == 3      \* composites one minifier object builds in a run
MaxTokens == 4       \* most tokens of a generated input text of minify
MaxRuns == 2         \* calls and file edits in a run of the file layer

\* ------------------------------------------------------------------ texts

None == "None"

\* Python's str.isspace / the regex class \s, restricted to the characters
\* a TLA+ string can name.
Whitespace == {" ", "\t", "\n", "\r", "\f"}

IsSpace(c) == c \in Whitespace

TextsOver(alphabet, n) == UNION {[1..k -> alphabet] : k \in 0..n}

\* text[p..] from position p to the end
Drop(text, p) == SubSeq(text, p, Len(text))

\* the literal lit stands in text at position p
StartsWithAt(text, p, lit) ==
    /\ p >= 1
    /\ p + Len(lit) - 1 <= Len(text)
    /\ \A i \in 1..Len(lit) : text[p + i - 1] = lit[i]

\* str.endswith
EndsWith(text, suffix) ==
    /\ Len(suffix) <= Len(text)
    /\ StartsWithAt(text, Len(text) - Len(suffix) + 1, suffix)

\* the position after the whitespace run that starts at p (p itself when
\* text[p] is no whitespace)
RECURSIVE SkipSpace(_, _)
SkipSpace(text, p) ==
    IF p <= Len(text) /\ IsSpace(text[p]) THEN SkipSpace(text, p + 1) ELSE p

\* position of the first "\n" at or after p, Len(text)+1 when there is none
RECURSIVE EndOfLine(_, _)
EndOfLine(text, p) ==
    IF p > Len(text) \/ text[p] = "\n" THEN p ELSE EndOfLine(text, p + 1)

\* first position q >= p where lit stands, 0 when there is none; with
\* dotall = FALSE the search stops at the first "\n" ('.' does not match it)
RECURSIVE FindLit(_, _, _, _)
FindLit(text, p, lit, dotall) ==
    IF p > Len(text) THEN 0
    ELSE IF StartsWithAt(text, p, lit) THEN p
    ELSE IF ~dotall /\ text[p] = "\n" THEN 0
    ELSE FindLit(text, p + 1, lit, dotall)

\* str.strip()
RECURSIVE LStrip(_)
LStrip(text) ==
    IF text # <<>> /\ IsSpace(Head(text)) THEN LStrip(Tail(text)) ELSE text

RECURSIVE RStrip(_)
RStrip(text) ==
    IF text # <<>> /\ IsSpace(text[Len(text)])
    THEN RStrip(SubSeq(text, 1, Len(text) - 1))
    ELSE text

Strip(text) == RStrip(LStrip(text))

\* str.split('\n'): always at least one line
RECURSIVE Split(_)
Split(text) ==
    LET e == EndOfLine(text, 1)
    IN  IF e > Len(text) THEN <<text>>
        ELSE <<SubSeq(text, 1, e - 1)>> \o Split(Drop(text, e + 1))

\* sep.join(lines)
RECURSIVE Join(_, _)
Join(sep, lines) ==
    IF lines = <<>> THEN <<>>
    ELSE IF Len(lines) = 1 THEN lines[1]
    ELSE lines[1] \o sep \o Join(sep, Tail(lines))

\* ------------------------------------------------------------------ regular expressions

\* The regular expressions the repository uses, by their source text.
WS_RUN == "\\s+"
PY_SINGLE == "#.*$"
PY_MULTI == "\"\"\".*?\"\"\"|'''.*?'''"
JS_SINGLE == "//.*$"
JS_MULTI == "/\\*.*?\\*/"
HTML_MULTI == "<!--.*?-->"
HTML_SINGLE == "\\/*.*?\\*/|//.*"
OP_PARENS == "\\s*([()])\\s*"
OP_BRACES == "\\s*([{}])\\s*"
OP_BRACKETS == "\\s*([[\\]])\\s*"
OP_OPERATORS == "\\s*([+%\\-*/=<>!&|:,])\\s*"

DefaultPatterns == <<OP_PARENS, OP_BRACES, OP_BRACKETS, OP_OPERATORS>>

\* the character class captured by group 1 of an operator pattern
PatternClass(pattern) ==
    CASE pattern = OP_PARENS    -> {"(", ")"}
      [] pattern = OP_BRACES    -> {"{", "}"}
      [] pattern = OP_BRACKETS  -> {"[", "]"}
      [] pattern = OP_OPERATORS ->
            {"+", "%", "-", "*", "/", "=", "<", ">", "!", "&", "|", ":", ","}

\* open.*?close under DOTALL matched at p: the position after the first
\* close that starts after the opener, 0 when the match fails
BlockMatchEnd(open, close, text, p) ==
    IF ~StartsWithAt(text, p, open) THEN 0
    ELSE LET q == FindLit(text, p + Len(open), close, TRUE)
         IN  IF q = 0 THEN 0 ELSE q + Len(close)

\* marker.*$ under MULTILINE matched at p: the end of the line
ToEolMatchEnd(marker, text, p) ==
    IF StartsWithAt(text, p, marker) THEN EndOfLine(text, p) ELSE 0

\* a plausible bug: \s?([class])\s?, at most one whitespace on each side
OperatorMatchEnd_oneSpace(class, text, p) ==
    LET q == IF IsSpace(text[p]) THEN p + 1 ELSE p
    IN  IF q <= Len(text) /\ text[q] \in class
        THEN IF q + 1 <= Len(text) /\ IsSpace(text[q + 1]) THEN q + 2 ELSE q + 1
        ELSE 0

\* \s*([class])\s* matched at p: the greedy leading run, one character of
\* the class, the greedy trailing run
OperatorMatchEnd(class, text, p) ==
    LET q == SkipSpace(text, p)
    IN  IF q <= Len(text) /\ text[q] \in class
        THEN SkipSpace(text, q + 1)
        ELSE 0

\* \/*.*?\*/|//.* under MULTILINE (no DOTALL) matched at p. First branch:
\* any run of '/', then as few non-newline characters as needed up to the
\* first "*/" of the line; second branch: "//" to the end of the line.
HtmlSingleMatchEnd(text, p) ==
    LET q == FindLit(text, p, <<"*", "/">>, FALSE)
    IN  IF q # 0 THEN q + 2
        ELSE ToEolMatchEnd(<<"/", "/">>, text, p)

\* The position after the match of pattern that starts at p, 0 when the
\* pattern does not match at p. No pattern of the program matches the
\* empty string.
MatchEnd(pattern, text, p) ==
    CASE pattern = WS_RUN ->
            IF IsSpace(text[p]) THEN SkipSpace(text, p) ELSE 0
      [] pattern = PY_SINGLE -> ToEolMatchEnd(<<"#">>, text, p)
      [] pattern = JS_SINGLE -> ToEolMatchEnd(<<"/", "/">>, text, p)
      [] pattern = HTML_SINGLE -> HtmlSingleMatchEnd(text, p)
      [] pattern = JS_MULTI ->
            BlockMatchEnd(<<"/", "*">>, <<"*", "/">>, text, p)
      [] pattern = HTML_MULTI ->
            BlockMatchEnd(<<"<", "!", "-", "-">>, <<"-", "-", ">">>, text, p)
      [] pattern = PY_MULTI ->
            LET dq == <<"\"", "\"", "\"">>
                sq == <<"'", "'", "'">>
                e  == BlockMatchEnd(dq, dq, text, p)
            IN  IF e # 0 THEN e ELSE BlockMatchEnd(sq, sq, text, p)
      [] pattern \in {OP_PARENS, OP_BRACES, OP_BRACKETS, OP_OPERATORS} ->
            OperatorMatchEnd(PatternClass(pattern), text, p)

\* the replacement text of one match that starts at p: "" deletes it, "\1"
\* is the character captured by group 1, anything else is literal
Expand(pattern, repl, text, p) ==
    IF repl = "\\1" THEN <<text[SkipSpace(text, p)]>>
    ELSE IF repl = "" THEN <<>>
    ELSE <<repl>>

\* re.sub(pattern, repl, text): leftmost non-overlapping matches, scanned
\* from position p on
RECURSIVE ScanSub(_, _, _, _)
ScanSub(pattern, repl, text, p) ==
    IF p > Len(text) THEN <<>>
    ELSE LET e == MatchEnd(pattern, text, p)
         IN  IF e = 0
             THEN <<text[p]>> \o ScanSub(pattern, repl, text, p + 1)
             ELSE Expand(pattern, repl, text, p) \o ScanSub(pattern, repl, text, e)

ReSub(pattern, repl, text) == ScanSub(pattern, repl, text, 1)

\* ------------------------------------------------------------------ basic actions

\* Python truthiness of an optional string argument (None or "" is false);
\* an optional list argument is modelled by the list, None by <<>>
Truthy(v) == v \notin {None, ""}

\* the constructors: an action object is the record of its fields
CommentRemovalAction(single_line_pattern, multi_line_pattern) ==
    [cls |-> "CommentRemovalAction",
     single_line_pattern |-> single_line_pattern,
     multi_line_pattern |-> multi_line_pattern]

WhitespaceReductionAction(preserve_newlines) ==
    [cls |-> "WhitespaceReductionAction", preserve_newlines |-> preserve_newlines]

EmptyLineRemovalAction == [cls |-> "EmptyLineRemovalAction"]

OperatorSpaceRemovalAction(patterns) ==
    [cls |-> "OperatorSpaceRemovalAction",
     patterns |-> IF patterns # <<>> THEN patterns ELSE DefaultPatterns]

LineJoiningAction(separator) ==
    [cls |-> "LineJoiningAction", separator |-> separator]

\* a plausible bug: the single-line pattern is applied first
CommentRemovalApply_singleFirst(self, text) ==
    LET single == IF Truthy(self.single_line_pattern)
                  THEN ReSub(self.single_line_pattern, "", text)
                  ELSE text
    IN  IF Truthy(self.multi_line_pattern)
        THEN ReSub(self.multi_line_pattern, "", single)
        ELSE single

\* CommentRemovalAction.apply: the multi-line pattern first (DOTALL), then
\* the single-line pattern (MULTILINE), each only when it is set
CommentRemovalApply(self, text) ==
    LET multi == IF Truthy(self.multi_line_pattern)
                 THEN ReSub(self.multi_line_pattern, "", text)
                 ELSE text
    IN  IF Truthy(self.single_line_pattern)
        THEN ReSub(self.single_line_pattern, "", multi)
        ELSE multi

\* a plausible bug: the runs are replaced but the ends are not stripped
CollapseLine_unstripped(line) == ReSub(WS_RUN, " ", line)

\* re.sub(r'\s+', ' ', line).strip()
CollapseLine(line) == Strip(ReSub(WS_RUN, " ", line))

\* a plausible bug: the lines are collapsed but not trimmed
WhitespaceReductionApply_untrimmed(self, text) ==
    IF self.preserve_newlines
    THEN LET lines == Split(text)
         IN  Join(<<"\n">>, [i \in 1..Len(lines) |-> ReSub(WS_RUN, " ", lines[i])])
    ELSE Strip(ReSub(WS_RUN, " ", text))

\* WhitespaceReductionAction.apply
WhitespaceReductionApply(self, text) ==
    IF self.preserve_newlines
    THEN LET lines == Split(text)
         IN  Join(<<"\n">>, [i \in 1..Len(lines) |-> CollapseLine(lines[i])])
    ELSE CollapseLine(text)

\* a plausible bug: the test is `if line` instead of `if line.strip()`
NonBlank_untrimmed(line) == line # <<>>

\* the filter of EmptyLineRemovalAction.apply: `if line.strip()`
NonBlank(line) == Strip(line) # <<>>

\* a plausible bug: only zero-length lines are dropped
EmptyLineRemovalApply_unstripped(self, text) ==
    Join(<<"\n">>, SelectSeq(Split(text), LAMBDA line : line # <<>>))

\* EmptyLineRemovalAction.apply
EmptyLineRemovalApply(self, text) ==
    Join(<<"\n">>, SelectSeq(Split(text), NonBlank))

\* the loop of OperatorSpaceRemovalAction.apply over the pattern list
RECURSIVE SubAll(_, _)
SubAll(patterns, text) ==
    IF patterns = <<>> THEN text
    ELSE SubAll(Tail(patterns), ReSub(Head(patterns), "\\1", text))

\* a plausible bug: the operator pass is left out
OperatorSpaceRemovalApply_bracketsOnly(self, text) ==
    SubAll(SubSeq(self.patterns, 1, Len(self.patterns) - 1), text)

\* OperatorSpaceRemovalAction.apply
OperatorSpaceRemovalApply(self, text) == SubAll(self.patterns, text)

\* the loop of LineJoiningAction.apply: lines[i..] appended to result
RECURSIVE JoinLoop(_, _, _, _)
JoinLoop(separator, lines, i, acc) ==
    IF i > Len(lines) THEN acc
    ELSE LET line == lines[i]
             sep  == IF i > 1 THEN separator ELSE <<>>
             body == IF EndsWith(line, separator)
                     THEN SubSeq(line, 1, Len(line) - 1)     \* line[:-1]
                     ELSE line
         IN  JoinLoop(separator, lines, i + 1, acc \o sep \o body)

\* LineJoiningAction.apply
LineJoiningApply(self, text) ==
    LET kept == SelectSeq(Split(text), NonBlank)
        non_empty_lines == [i \in 1..Len(kept) |-> Strip(kept[i])]
    IN  JoinLoop(self.separator, non_empty_lines, 1, <<>>)

\* ------------------------------------------------------------------ composite

\* the name property of MinificationAction: the class name
ClassName(self) == self.cls

\* action.apply(text) for an action object, by its class; a NamedAction
\* (the factory's wrapper) delegates to the action it wraps
BasicApply(self, text) ==
    CASE self.cls = "CommentRemovalAction"       -> CommentRemovalApply(self, text)
      [] self.cls = "WhitespaceReductionAction"  -> WhitespaceReductionApply(self, text)
      [] self.cls = "EmptyLineRemovalAction"     -> EmptyLineRemovalApply(self, text)
      [] self.cls = "OperatorSpaceRemovalAction" -> OperatorSpaceRemovalApply(self, text)
      [] self.cls = "LineJoiningAction"          -> LineJoiningApply(self, text)

ActionApply(self, text) ==
    IF self.cls = "NamedAction" THEN BasicApply(self.action, text)
    ELSE BasicApply(self, text)

ActionName(self) ==
    IF self.cls = "NamedAction" THEN self.name ELSE ClassName(self)

\* CompositeMinificationAction.__init__: self.actions = actions or []
CompositeMinificationAction(action_list) == [actions |-> action_list]

\* a plausible bug: the new action is put in front
add_action_prepend(self, action) ==
    [self EXCEPT !.actions = <<action>> \o @]

\* CompositeMinificationAction.add_action
add_action(self, action) ==
    [self EXCEPT !.actions = Append(@, action)]

\* the loop of CompositeMinificationAction.apply: result threaded through
\* action_list from its first element on
RECURSIVE ApplyLoop(_, _)
ApplyLoop(action_list, text) ==
    IF action_list = <<>> THEN text
    ELSE ApplyLoop(Tail(action_list), ActionApply(Head(action_list), text))

\* a plausible bug: the loop runs over the list from its end
RECURSIVE ApplyLoopReversed(_, _)
ApplyLoopReversed(action_list, text) ==
    IF action_list = <<>> THEN text
    ELSE ApplyLoopReversed(SubSeq(action_list, 1, Len(action_list) - 1),
                           ActionApply(action_list[Len(action_list)], text))

CompositeApply_reversed(self, text) == ApplyLoopReversed(self.actions, text)

\* CompositeMinificationAction.apply
CompositeApply(self, text) == ApplyLoop(self.actions, text)

\* ------------------------------------------------------------------ idle values

\* the values of the variables a specification does not use
NoComposite == CompositeMinificationAction(<<>>)
NoMinifier == [kind |-> None]
NoCall == [name |-> "init"]
NoAction == [cls |-> None]
NoFileSystem == [files |-> <<>>, locked |-> {}]
NoJob == [file_path |-> None]
NoProject == [files_to_skip |-> <<>>]

\* ------------------------------------------------------------------ the basic actions, one call each

WsAlphabet == {" ", "\t", "\n", "a"}
JoinAlphabet == {";", " ", "\n", "a"}
OpAlphabet == {"(", "{", "[", "+", " ", "\n", "a"}

\* texts of the repository's tests and documentation
ExampleJoin == <<"a", ";", "\n", "b", "\n", "c", ";">>
ExampleParens == <<"(", " ", "a", " ", "+", " ", "b", " ", ")">>
ExampleVar ==
    <<"v", "a", "r", " ", "x", " ", "=", " ", "5", " ", "+", " ", "1", "0", ";">>

ActionInputs ==
    TextsOver(WsAlphabet, MaxLen) \cup TextsOver(JoinAlphabet, MaxLen)
        \cup TextsOver(OpAlphabet, MaxLen)
        \cup {ExampleJoin, ExampleParens, ExampleVar}

\* separators given to LineJoiningAction: the default, a longer one, none
Separators == {<<";">>, <<";", ";">>, <<"a", ";">>, <<>>}

InitActions ==
    /\ code \in ActionInputs
    /\ result = <<>>
    /\ op = NoCall
    /\ composite = NoComposite
    /\ actions = <<>>
    /\ minifier = NoMinifier
    /\ nextId = 0
    /\ made = NoAction
    /\ error = None
    /\ fs = NoFileSystem
    /\ job = NoJob
    /\ project = NoProject

\* action.apply(code): the call recorded and its result kept
Call(name, action) ==
    /\ op' = [name |-> name, action |-> action]
    /\ result' = ActionApply(action, code)
    /\ UNCHANGED <<code, composite, actions, minifier, nextId, made, error, fs, job, project>>

\* WhitespaceReductionAction(preserve_newlines).apply(code)
ApplyWhitespaceReduction ==
    \E preserve_newlines \in BOOLEAN :
        /\ op.name = "init"
        /\ Call("whitespace", WhitespaceReductionAction(preserve_newlines))

\* EmptyLineRemovalAction().apply(code)
ApplyEmptyLineRemoval ==
    /\ op.name = "init"
    /\ Call("empty_lines", EmptyLineRemovalAction)

\* OperatorSpaceRemovalAction().apply(code), the default patterns
ApplyOperatorSpaceRemoval ==
    /\ op.name = "init"
    /\ Call("operators", OperatorSpaceRemovalAction(<<>>))

\* LineJoiningAction(separator).apply(code)
ApplyLineJoining ==
    \E separator \in Separators :
        /\ op.name = "init"
        /\ Call("line_joining", LineJoiningAction(separator))

\* action.apply(action.apply(code)): the action of the first call applied
\* to its own output; code becomes the text given to this second call
ApplyAgain ==
    /\ op.name \in {"whitespace", "empty_lines", "operators", "line_joining"}
    /\ op' = [name |-> "again", action |-> op.action, first |-> op.name]
    /\ code' = result
    /\ result' = ActionApply(op.action, result)
    /\ UNCHANGED <<composite, actions, minifier, nextId, made, error, fs, job, project>>

NextActions ==
    \/ ApplyWhitespaceReduction
    \/ ApplyEmptyLineRemoval
    \/ ApplyOperatorSpaceRemoval
    \/ ApplyLineJoining
    \/ ApplyAgain

SpecActions == InitActions /\ [][NextActions]_vars

\* ------------------------------------------------------------------ claims about the basic actions

\* the maximal runs of non-whitespace characters of a line, in order
RECURSIVE Words(_)
Words(line) ==
    LET rest == LStrip(line)
    IN  IF rest = <<>> THEN <<>>
        ELSE LET n == CHOOSE k \in 1..Len(rest) :
                        /\ \A i \in 1..k : ~IsSpace(rest[i])
                        /\ k = Len(rest) \/ IsSpace(rest[k + 1])
             IN  <<SubSeq(rest, 1, n)>> \o Words(Drop(rest, n + 1))

\* a line with every whitespace run replaced by one space and no leading
\* or trailing whitespace: its words, one space between them
Normalised(line) == Join(<<" ">>, Words(line))

\* C7: WhitespaceReductionAction(preserve_newlines=True).apply keeps the
\* line structure: the output has as many newline-delimited lines as the
\* input, and output line k is input line k with every whitespace run
\* replaced by one space and leading and trailing whitespace removed.
C7_LinesKept ==
    (op.name = "whitespace" /\ op.action.preserve_newlines) =>
        LET inl  == Split(code)
            outl == Split(result)
        IN  /\ Len(outl) = Len(inl)
            /\ \A k \in 1..Len(inl) : outl[k] = Normalised(inl[k])

\* a call on a text of several lines in which a run was collapsed, a line
\* trimmed and a line emptied
C7_Witness ==
    /\ op.name = "whitespace" /\ op.action.preserve_newlines
    /\ code = <<" ", "a", "\n", "\t">>
    /\ result = <<"a", "\n">>

\* the line has a character that is no whitespace
HasInk(line) == \E i \in 1..Len(line) : ~IsSpace(line[i])

\* the lines of a text, none for the empty text
LinesOf(text) == IF text = <<>> THEN <<>> ELSE Split(text)

\* the index in lines of its k-th line with ink, counted from index i on
RECURSIVE KthInked(_, _, _)
KthInked(lines, i, k) ==
    IF HasInk(lines[i])
    THEN IF k = 1 THEN i ELSE KthInked(lines, i + 1, k - 1)
    ELSE KthInked(lines, i + 1, k)

\* C8: EmptyLineRemovalAction.apply returns exactly the lines whose trimmed
\* form is non-empty, each unmodified, in their original relative order,
\* joined by single newlines; no line made only of spaces or tabs remains.
C8_NonBlankLinesKept ==
    op.name = "empty_lines" =>
        LET inl   == Split(code)
            outl  == LinesOf(result)
            inked == {i \in 1..Len(inl) : HasInk(inl[i])}
        IN  /\ Len(outl) = Cardinality(inked)
            /\ \A k \in 1..Len(outl) : outl[k] = inl[KthInked(inl, 1, k)]
            /\ \A k \in 1..Len(outl) : HasInk(outl[k])

\* a call that dropped a line of one tab and kept a line with its leading
\* space
C8_Witness ==
    /\ op.name = "empty_lines"
    /\ code = <<"\t", "\n", " ", "a">>
    /\ result = <<" ", "a">>

\* line without one trailing occurrence of separator, when it ends with it
RemoveSuffix(line, separator) ==
    IF EndsWith(line, separator)
    THEN SubSeq(line, 1, Len(line) - Len(separator))
    ELSE line

\* C9: for every separator s and every text, LineJoiningAction(s).apply
\* drops blank lines, trims the remaining lines, removes one trailing
\* occurrence of s from each line that ends with s, and concatenates the
\* results with s between consecutive lines.
C9_OneSeparatorBetweenLines ==
    op.name = "line_joining" =>
        LET kept == SelectSeq(Split(code), HasInk)
            s    == op.action.separator
        IN  result = Join(s, [i \in 1..Len(kept) |-> RemoveSuffix(Strip(kept[i]), s)])

\* the characters of a text that are no whitespace, in order
Ink(text) == SelectSeq(text, LAMBDA c : ~IsSpace(c))

OperatorCharacters ==
    {"(", ")", "{", "}", "[", "]",
     "+", "%", "-", "*", "/", "=", "<", ">", "!", "&", "|", ":", ","}

\* C10: OperatorSpaceRemovalAction with the default patterns deletes only
\* whitespace: the output has the same non-whitespace characters in the
\* same order, and no whitespace stands immediately before or after a
\* bracket or operator character, whatever their order in the input.
C10_NoSpaceAroundOperators ==
    op.name = "operators" =>
        /\ Ink(result) = Ink(code)
        /\ \A i \in 1..Len(result) :
              result[i] \in OperatorCharacters =>
                  /\ i > 1 => ~IsSpace(result[i - 1])
                  /\ i < Len(result) => ~IsSpace(result[i + 1])
        /\ code = ExampleParens => result = <<"(", "a", "+", "b", ")">>
        /\ code = ExampleVar =>
              result = <<"v", "a", "r", " ", "x", "=", "5", "+", "1", "0", ";">>

\* a call on "( a + b )", an operator between brackets, giving "(a+b)"
C10_Witness ==
    /\ op.name = "operators"
    /\ code = ExampleParens
    /\ result = <<"(", "a", "+", "b", ")">>

\* C11: WhitespaceReductionAction(preserve_newlines=False).apply is
\* idempotent: applied to its own output it returns that output unchanged;
\* and its output has no newline, no two consecutive whitespace characters
\* and no leading or trailing whitespace.
C11_WhitespaceReductionIdempotent ==
    /\ (op.name = "whitespace" /\ ~op.action.preserve_newlines) =>
          /\ \A i \in 1..Len(result) : result[i] # "\n"
          /\ \A i \in 1..Len(result) - 1 :
                ~(IsSpace(result[i]) /\ IsSpace(result[i + 1]))
          /\ result # <<>> =>
                ~IsSpace(result[1]) /\ ~IsSpace(result[Len(result)])
    /\ (op.name = "again" /\ op.first = "whitespace"
            /\ ~op.action.preserve_newlines) =>
          result = code

\* the second call on "a a", the output of a first call that had runs to
\* collapse, returns "a a"
C11_Witness ==
    /\ op.name = "again" /\ op.first = "whitespace"
    /\ ~op.action.preserve_newlines
    /\ code = <<"a", " ", "a">>
    /\ result = <<"a", " ", "a">>

\* C12: EmptyLineRemovalAction.apply is idempotent: apply(apply(t)) is
\* apply(t) for every text t; the empty text and the texts made only of
\* blank lines give the empty text, which the second call returns as it is.
C12_EmptyLineRemovalIdempotent ==
    /\ (op.name = "empty_lines" /\ ~HasInk(code)) => result = <<>>
    /\ (op.name = "again" /\ op.first = "empty_lines") => result = code

\* the second call on "a\na", the output of a first call that dropped a
\* blank line, returns "a\na"
C12_Witness ==
    /\ op.name = "again" /\ op.first = "empty_lines"
    /\ code = <<"a", "\n", "a">>
    /\ result = code

\* ------------------------------------------------------------------ a composite in use

\* actions put into composites: no two of them commute
ActionPool ==
    {WhitespaceReductionAction(FALSE), EmptyLineRemovalAction,
     LineJoiningAction(<<";">>)}

PipelineAlphabet == {" ", "\n", "a"}
PipelineInputs == TextsOver(PipelineAlphabet, MaxPipelineLen)

\* the action lists a composite is constructed with
GivenLists == {<<>>} \cup {<<a>> : a \in ActionPool}

InitComposite ==
    /\ composite \in {CompositeMinificationAction(l) : l \in GivenLists}
    /\ code \in PipelineInputs
    /\ result = <<>>
    /\ op = NoCall
    /\ actions = <<>>
    /\ minifier = NoMinifier
    /\ nextId = 0
    /\ made = NoAction
    /\ error = None
    /\ fs = NoFileSystem
    /\ job = NoJob
    /\ project = NoProject

\* composite.add_action(action)
AddAction ==
    \E action \in ActionPool :
        /\ Len(composite.actions) < MaxActions
        /\ composite' = add_action(composite, action)
        /\ op' = [name |-> "add_action", action |-> action]
        /\ UNCHANGED <<code, result, actions, minifier, nextId, made, error, fs, job, project>>

\* composite.apply(code)
Apply ==
    /\ result' = CompositeApply(composite, code)
    /\ op' = [name |-> "apply"]
    /\ UNCHANGED <<code, composite, actions, minifier, nextId, made, error, fs, job, project>>

NextComposite == AddAction \/ Apply

SpecComposite == InitComposite /\ [][NextComposite]_vars

\* the output of action i of the list on the output of action i-1, the
\* input text being the output of action 0
RECURSIVE OutputOf(_, _, _)
OutputOf(action_list, i, text) ==
    IF i = 0 THEN text
    ELSE ActionApply(action_list[i], OutputOf(action_list, i - 1, text))

\* C1: CompositeMinificationAction.apply runs its actions in list order,
\* feeding the output of action i to action i+1, and returns the last
\* output; with an empty list it returns the text unchanged. An action
\* appended with add_action runs after all earlier ones.
C1_AppliedInListOrder ==
    [][/\ op'.name = "apply" =>
            /\ result' = OutputOf(composite.actions, Len(composite.actions), code)
            /\ composite.actions = <<>> => result' = code
       /\ op'.name = "add_action" =>
            CompositeApply(composite', code) =
                ActionApply(op'.action, CompositeApply(composite, code))
      ]_vars

\* an apply of a composite that add_action has extended, on a text for
\* which the order of the actions shows
C1_Witness ==
    /\ op.name = "apply"
    /\ composite.actions =
          <<LineJoiningAction(<<";">>), WhitespaceReductionAction(FALSE)>>
    /\ code = <<"a", "\n", "a">>
    /\ result = <<"a", ";", "a">>

\* ------------------------------------------------------------------ a custom minifier

\* CustomMinifier.minify of create_custom_minifier: a composite built from
\* the list the closure holds, as that list is at the call
CustomMinify(action_list, text) ==
    CompositeApply(CompositeMinificationAction(action_list), text)

InitCustom ==
    /\ actions \in GivenLists
    /\ minifier = [kind |-> "custom", name |-> "custom",
                   file_extensions |-> <<".txt">>]
    /\ code \in PipelineInputs
    /\ result = <<>>
    /\ op = NoCall
    /\ composite = NoComposite
    /\ nextId = 0
    /\ made = NoAction
    /\ error = None
    /\ fs = NoFileSystem
    /\ job = NoJob
    /\ project = NoProject

\* the caller appends to the list it gave
ListAppend ==
    \E action \in ActionPool :
        /\ Len(actions) < MaxActions
        /\ actions' = Append(actions, action)
        /\ op' = [name |-> "append"]
        /\ UNCHANGED <<code, result, composite, minifier, nextId, made, error, fs, job, project>>

\* the caller removes an element of the list it gave
ListRemove ==
    \E i \in 1..Len(actions) :
        /\ actions' = SubSeq(actions, 1, i - 1) \o Drop(actions, i + 1)
        /\ op' = [name |-> "remove"]
        /\ UNCHANGED <<code, result, composite, minifier, nextId, made, error, fs, job, project>>

\* the caller reverses the list it gave
ListReverse ==
    /\ Len(actions) > 1
    /\ actions' = [i \in 1..Len(actions) |-> actions[Len(actions) + 1 - i]]
    /\ op' = [name |-> "reverse"]
    /\ UNCHANGED <<code, result, composite, minifier, nextId, made, error, fs, job, project>>

\* minifier.minify(code)
MinifyCustom ==
    /\ result' = CustomMinify(actions, code)
    /\ op' = [name |-> "minify"]
    /\ UNCHANGED <<code, actions, composite, minifier, nextId, made, error, fs, job, project>>

NextCustom == ListAppend \/ ListRemove \/ ListReverse \/ MinifyCustom

SpecCustom == InitCustom /\ [][NextCustom]_vars

\* C4: a minifier from create_custom_minifier applies, on every minify
\* call, the actions in the given list at the time of the call, in list
\* order; with an empty list minify(t) = t.
C4_ListReadAtEachCall ==
    op.name = "minify" =>
        /\ result = OutputOf(actions, Len(actions), code)
        /\ actions = <<>> => result = code

\* a minify after the caller changed the list, on a text for which the
\* order of the actions shows
C4_Witness ==
    /\ op.name = "minify"
    /\ actions = <<WhitespaceReductionAction(FALSE), LineJoiningAction(<<";">>)>>
    /\ code = <<"a", "\n", "a">>
    /\ result = <<"a", " ", "a">>

\* ------------------------------------------------------------------ the action factory

\* the dictionary action_classes of create_action
action_classes ==
    [whitespace   |-> "WhitespaceReductionAction",
     comments     |-> "CommentRemovalAction",
     empty_lines  |-> "EmptyLineRemovalAction",
     operators    |-> "OperatorSpaceRemovalAction",
     line_joining |-> "LineJoiningAction"]

\* the keyword parameters a constructor accepts
Parameters(cls) ==
    CASE cls = "WhitespaceReductionAction"  -> {"preserve_newlines"}
      [] cls = "CommentRemovalAction"       -> {"single_line_pattern", "multi_line_pattern"}
      [] cls = "EmptyLineRemovalAction"     -> {}
      [] cls = "OperatorSpaceRemovalAction" -> {"patterns"}
      [] cls = "LineJoiningAction"          -> {"separator"}

\* a keyword argument, or the parameter's default when it is not given
Arg(kwargs, key, default) ==
    IF key \in DOMAIN kwargs THEN kwargs[key] ELSE default

\* action_class(**kwargs), for kwargs the constructor accepts
Construct(cls, kwargs) ==
    CASE cls = "WhitespaceReductionAction" ->
            WhitespaceReductionAction(Arg(kwargs, "preserve_newlines", FALSE))
      [] cls = "CommentRemovalAction" ->
            CommentRemovalAction(Arg(kwargs, "single_line_pattern", None),
                                 Arg(kwargs, "multi_line_pattern", None))
      [] cls = "EmptyLineRemovalAction" -> EmptyLineRemovalAction
      [] cls = "OperatorSpaceRemovalAction" ->
            OperatorSpaceRemovalAction(Arg(kwargs, "patterns", <<>>))
      [] cls = "LineJoiningAction" ->
            LineJoiningAction(Arg(kwargs, "separator", <<";">>))

\* the wrapper class NamedAction of create_action
NamedAction(action, name) ==
    [cls |-> "NamedAction", action |-> action, name |-> name]

\* a plausible bug: an unknown type falls back to the whitespace action
create_action_fallback(action_type, name, kwargs) ==
    LET action_class == IF action_type \in DOMAIN action_classes
                        THEN action_classes[action_type]
                        ELSE "WhitespaceReductionAction"
    IN  IF ~(DOMAIN kwargs \subseteq Parameters(action_class))
        THEN [value |-> NoAction, raised |-> "TypeError"]
        ELSE LET action == Construct(action_class, kwargs)
             IN  [value |-> IF Truthy(name) THEN NamedAction(action, name) ELSE action,
                  raised |-> None]

\* create_action(action_type, name, **kwargs): the action returned and the
\* exception raised
create_action(action_type, name, kwargs) ==
    IF action_type \notin DOMAIN action_classes
    THEN [value |-> NoAction, raised |-> "ValueError"]
    ELSE LET action_class == action_classes[action_type]
         IN  IF ~(DOMAIN kwargs \subseteq Parameters(action_class))
             THEN [value |-> NoAction, raised |-> "TypeError"]
             ELSE LET action == Construct(action_class, kwargs)
                  IN  [value |-> IF Truthy(name) THEN NamedAction(action, name)
                                 ELSE action,
                       raised |-> None]

\* the type tags, names and keyword arguments the factory is called with
ActionTypes ==
    {"whitespace", "comments", "empty_lines", "operators", "line_joining",
     "bogus", "Whitespace"}

ActionNames == {None, "", "X"}

KeywordArguments ==
    {[preserve_newlines |-> TRUE],
     [preserve_newlines |-> FALSE],
     [separator |-> <<"a">>],
     [single_line_pattern |-> JS_SINGLE, multi_line_pattern |-> JS_MULTI],
     [patterns |-> <<OP_OPERATORS>>],
     [k \in {} |-> TRUE]}

FactoryAlphabet == {" ", "\n", "a", "+"}
FactoryInputs == TextsOver(FactoryAlphabet, MaxPipelineLen)

InitFactory ==
    /\ code \in FactoryInputs
    /\ result = <<>>
    /\ op = NoCall
    /\ composite = NoComposite
    /\ actions = <<>>
    /\ minifier = NoMinifier
    /\ nextId = 0
    /\ made = NoAction
    /\ error = None
    /\ fs = NoFileSystem
    /\ job = NoJob
    /\ project = NoProject

\* made = create_action(action_type, name=name, **kwargs)
CreateAction ==
    \E action_type \in ActionTypes, name \in ActionNames, kwargs \in KeywordArguments :
        LET r == create_action(action_type, name, kwargs)
        IN  /\ op.name = "init"
            /\ made' = r.value
            /\ error' = r.raised
            /\ op' = [name |-> "create_action", action_type |-> action_type,
                      custom_name |-> name, kwargs |-> kwargs]
            /\ UNCHANGED <<code, result, composite, actions, minifier, nextId, fs, job, project>>

\* made.apply(code) on the action the factory returned
ApplyMade ==
    /\ op.name = "create_action"
    /\ error = None
    /\ result' = ActionApply(made, code)
    /\ op' = [op EXCEPT !.name = "apply_made"]
    /\ UNCHANGED <<code, composite, actions, minifier, nextId, made, error, fs, job, project>>

NextFactory == CreateAction \/ ApplyMade

SpecFactory == InitFactory /\ [][NextFactory]_vars

\* the five type tags and the one action kind of each
KindOfTag ==
    [whitespace   |-> "WhitespaceReductionAction",
     comments     |-> "CommentRemovalAction",
     empty_lines  |-> "EmptyLineRemovalAction",
     operators    |-> "OperatorSpaceRemovalAction",
     line_joining |-> "LineJoiningAction"]

\* the action a call constructed: the one a name wrapper delegates to
Underlying(action) ==
    IF action.cls = "NamedAction" THEN action.action ELSE action

C6_NameOverridden ==
    ( /\ op.name \in {"create_action", "apply_made"}
      /\ op.custom_name # None
      /\ error = None ) =>
        /\ ActionName(made) = op.custom_name
        /\ op.name = "apply_made" =>
              result = ActionApply(create_action(op.action_type, None, op.kwargs).value, code)

\* ------------------------------------------------------------------ language minifiers

\* an object with its identity: the value of the allocation counter when it
\* was built
New(id, object) == [id |-> id] @@ object

\* a plausible bug: the docstring pattern replaces the comment pattern
PythonCreateAction_docstringsOnly(self, id) ==
    LET comments == IF self.preserve_docstrings
                    THEN CommentRemovalAction(PY_SINGLE, None)
                    ELSE CommentRemovalAction(None, PY_MULTI)
        base == <<comments,
                  WhitespaceReductionAction(self.preserve_newlines),
                  EmptyLineRemovalAction>>
    IN  New(id, CompositeMinificationAction(
                    IF ~self.preserve_newlines
                    THEN Append(base, OperatorSpaceRemovalAction(<<>>))
                    ELSE base))

\* PythonMinifier._create_action
PythonCreateAction(self, id) ==
    LET comments == IF self.preserve_docstrings
                    THEN CommentRemovalAction(PY_SINGLE, None)
                    ELSE CommentRemovalAction(PY_SINGLE, PY_MULTI)
        base == <<comments,
                  WhitespaceReductionAction(self.preserve_newlines),
                  EmptyLineRemovalAction>>
    IN  New(id, CompositeMinificationAction(
                    IF ~self.preserve_newlines
                    THEN Append(base, OperatorSpaceRemovalAction(<<>>))
                    ELSE base))

\* a plausible bug: the pipeline is built before the docstring toggle is
\* stored
PythonMinifier_docstringsLate(preserve_newlines, preserve_docstrings, id) ==
    LET self == [kind |-> "python",
                 preserve_newlines |-> preserve_newlines,
                 preserve_docstrings |-> preserve_docstrings]
    IN  [action |-> PythonCreateAction(
                        [self EXCEPT !.preserve_docstrings = FALSE], id)] @@ self

\* PythonMinifier.__init__
PythonMinifier(preserve_newlines, preserve_docstrings, id) ==
    LET self == [kind |-> "python",
                 preserve_newlines |-> preserve_newlines,
                 preserve_docstrings |-> preserve_docstrings]
    IN  [action |-> PythonCreateAction(self, id)] @@ self

\* a plausible bug: the pipeline is rebuilt on every call
PythonSetPreserveNewlines_always(self, preserve, id) ==
    LET next == [self EXCEPT !.preserve_newlines = preserve]
    IN  [next EXCEPT !.action = PythonCreateAction(next, id)]

\* PythonMinifier.set_preserve_newlines
PythonSetPreserveNewlines(self, preserve, id) ==
    IF self.preserve_newlines # preserve
    THEN LET next == [self EXCEPT !.preserve_newlines = preserve]
         IN  [next EXCEPT !.action = PythonCreateAction(next, id)]
    ELSE self

\* PythonMinifier.set_preserve_docstrings
PythonSetPreserveDocstrings(self, preserve, id) ==
    IF self.preserve_docstrings # preserve
    THEN LET next == [self EXCEPT !.preserve_docstrings = preserve]
         IN  [next EXCEPT !.action = PythonCreateAction(next, id)]
    ELSE self

\* a plausible bug: the operator pass follows preserve_newlines alone, as
\* in PythonMinifier
JavaScriptCreateAction_newlinesOnly(self, id) ==
    LET base == <<CommentRemovalAction(JS_SINGLE, JS_MULTI),
                  WhitespaceReductionAction(self.preserve_newlines),
                  EmptyLineRemovalAction>>
    IN  New(id, CompositeMinificationAction(
                    IF ~self.preserve_newlines
                    THEN Append(base, OperatorSpaceRemovalAction(<<>>))
                    ELSE base))

\* JavaScriptMinifier._create_action
JavaScriptCreateAction(self, id) ==
    LET base == <<CommentRemovalAction(JS_SINGLE, JS_MULTI),
                  WhitespaceReductionAction(self.preserve_newlines),
                  EmptyLineRemovalAction>>
    IN  New(id, CompositeMinificationAction(
                    IF self.aggressive \/ ~self.preserve_newlines
                    THEN Append(base, OperatorSpaceRemovalAction(<<>>))
                    ELSE base))

\* JavaScriptMinifier.__init__
JavaScriptMinifier(preserve_newlines, aggressive, id) ==
    LET self == [kind |-> "javascript",
                 preserve_newlines |-> preserve_newlines,
                 aggressive |-> aggressive]
    IN  [action |-> JavaScriptCreateAction(self, id)] @@ self

\* JavaScriptMinifier.set_preserve_newlines
JavaScriptSetPreserveNewlines(self, preserve, id) ==
    IF self.preserve_newlines # preserve
    THEN LET next == [self EXCEPT !.preserve_newlines = preserve]
         IN  [next EXCEPT !.action = JavaScriptCreateAction(next, id)]
    ELSE self

\* a plausible bug: the toggle is set and the cached pipeline kept
JavaScriptSetAggressive_stale(self, aggressive, id) ==
    [self EXCEPT !.aggressive = aggressive]

\* JavaScriptMinifier.set_aggressive
JavaScriptSetAggressive(self, aggressive, id) ==
    IF self.aggressive # aggressive
    THEN LET next == [self EXCEPT !.aggressive = aggressive]
         IN  [next EXCEPT !.action = JavaScriptCreateAction(next, id)]
    ELSE self

\* HTMLMinifier._create_action
HTMLCreateAction(self, id) ==
    New(id, CompositeMinificationAction(
                <<CommentRemovalAction(HTML_SINGLE, HTML_MULTI),
                  WhitespaceReductionAction(self.preserve_newlines),
                  EmptyLineRemovalAction>>))

\* HTMLMinifier.__init__
HTMLMinifier(preserve_newlines, id) ==
    LET self == [kind |-> "html", preserve_newlines |-> preserve_newlines]
    IN  [action |-> HTMLCreateAction(self, id)] @@ self

\* HTMLMinifier.set_preserve_newlines
HTMLSetPreserveNewlines(self, preserve, id) ==
    IF self.preserve_newlines # preserve
    THEN LET next == [self EXCEPT !.preserve_newlines = preserve]
         IN  [next EXCEPT !.action = HTMLCreateAction(next, id)]
    ELSE self

\* a plausible bug: the whitespace pass keeps the lines
CSSMinifier_keepsLines(id) ==
    [kind |-> "css",
     action |-> New(id, CompositeMinificationAction(
                    <<CommentRemovalAction(None, JS_MULTI),
                      WhitespaceReductionAction(TRUE),
                      EmptyLineRemovalAction,
                      OperatorSpaceRemovalAction(<<>>)>>))]

\* CSSMinifier.__init__: a fixed pipeline, no toggle; its block-comment
\* pattern is the same regular expression as JavaScript's
CSSMinifier(id) ==
    [kind |-> "css",
     action |-> New(id, CompositeMinificationAction(
                    <<CommentRemovalAction(None, JS_MULTI),
                      WhitespaceReductionAction(FALSE),
                      EmptyLineRemovalAction,
                      OperatorSpaceRemovalAction(<<>>)>>))]

\* minify of PythonMinifier, JavaScriptMinifier, CSSMinifier and
\* HTMLMinifier: the cached composite applied
Minify(self, text) == CompositeApply(self.action, text)

\* ------------------------------------------------------------------ a language minifier in use

MinifierAlphabet == {" ", "\n", "+", "a"}

ExampleDocstring == <<"\"", "\"", "\"", "a", "\"", "\"", "\"">>
ExampleJs ==
    <<"v", "a", "r", " ", "x", " ", "=", " ", "1", " ", "+", " ", "2", ";">>

MinifierInputs ==
    TextsOver(MinifierAlphabet, MaxPipelineLen) \cup {ExampleDocstring, ExampleJs}

InitMinifier ==
    /\ minifier \in
          {PythonMinifier(n, d, 0) : n \in BOOLEAN, d \in BOOLEAN}
              \cup {JavaScriptMinifier(n, a, 0) : n \in BOOLEAN, a \in BOOLEAN}
              \cup {HTMLMinifier(n, 0) : n \in BOOLEAN}
    /\ nextId = 1
    /\ code \in MinifierInputs
    /\ result = <<>>
    /\ op = NoCall
    /\ composite = NoComposite
    /\ actions = <<>>
    /\ made = NoAction
    /\ error = None
    /\ fs = NoFileSystem
    /\ job = NoJob
    /\ project = NoProject

\* a setter call that leaves the minifier object as next: one more object
\* was allocated when next holds a composite built by this call
Configure(name, value, next) ==
    /\ nextId <= MaxObjects
    /\ minifier' = next
    /\ nextId' = IF next.action.id = nextId THEN nextId + 1 ELSE nextId
    /\ op' = [name |-> name, value |-> value]
    /\ UNCHANGED <<code, result, composite, actions, made, error, fs, job, project>>

\* minifier.set_preserve_newlines(preserve)
SetPreserveNewlines ==
    \E preserve \in BOOLEAN :
        /\ minifier.kind \in {"python", "javascript", "html"}
        /\ Configure("set_preserve_newlines", preserve,
            CASE minifier.kind = "python" ->
                    PythonSetPreserveNewlines(minifier, preserve, nextId)
              [] minifier.kind = "javascript" ->
                    JavaScriptSetPreserveNewlines(minifier, preserve, nextId)
              [] minifier.kind = "html" ->
                    HTMLSetPreserveNewlines(minifier, preserve, nextId))

\* minifier.set_preserve_docstrings(preserve)
SetPreserveDocstrings ==
    \E preserve \in BOOLEAN :
        /\ minifier.kind = "python"
        /\ Configure("set_preserve_docstrings", preserve,
                     PythonSetPreserveDocstrings(minifier, preserve, nextId))

\* minifier.set_aggressive(aggressive)
SetAggressive ==
    \E aggressive \in BOOLEAN :
        /\ minifier.kind = "javascript"
        /\ Configure("set_aggressive", aggressive,
                     JavaScriptSetAggressive(minifier, aggressive, nextId))

\* minifier.minify(code)
MinifyCode ==
    /\ result' = Minify(minifier, code)
    /\ op' = [name |-> "minify"]
    /\ UNCHANGED <<code, composite, actions, minifier, nextId, made, error, fs, job, project>>

NextMinifier ==
    \/ SetPreserveNewlines
    \/ SetPreserveDocstrings
    \/ SetAggressive
    \/ MinifyCode

SpecMinifier == InitMinifier /\ [][NextMinifier]_vars

\* a minifier freshly constructed with the toggle values of self
Fresh(self) ==
    CASE self.kind = "python" ->
            PythonMinifier(self.preserve_newlines, self.preserve_docstrings, 0)
      [] self.kind = "javascript" ->
            JavaScriptMinifier(self.preserve_newlines, self.aggressive, 0)
      [] self.kind = "html" ->
            HTMLMinifier(self.preserve_newlines, 0)

\* C2: after construction and after any sequence of toggle-setter calls the
\* cached composite is the pipeline derived from the current toggle values,
\* so minify(t) equals the result of a freshly constructed minifier with
\* those toggle values.
C2_CacheFollowsToggles ==
    /\ minifier.action.actions = Fresh(minifier).action.actions
    /\ op.name = "minify" => result = Minify(Fresh(minifier), code)

\* a minify after set_aggressive rebuilt the pipeline of a JavaScript
\* minifier, on a text that shows the operator pass
C2_Witness ==
    /\ op.name = "minify"
    /\ minifier.kind = "javascript"
    /\ minifier.aggressive /\ minifier.preserve_newlines
    /\ minifier.action.id > 0
    /\ code = <<"a", " ", "+">>
    /\ result = <<"a", "+">>

SetterNames == {"set_preserve_newlines", "set_preserve_docstrings", "set_aggressive"}

\* the toggle a setter sets
ToggleOf(self, setter) ==
    CASE setter = "set_preserve_newlines"   -> self.preserve_newlines
      [] setter = "set_preserve_docstrings" -> self.preserve_docstrings
      [] setter = "set_aggressive"          -> self.aggressive

\* C3: a toggle setter called with the value the toggle already has leaves
\* the minifier unchanged: the cached composite is the same object (no
\* rebuild), the toggles are unchanged and minify returns what it returned
\* before.
C3_SameValueNoRebuild ==
    [][(op'.name \in SetterNames /\ op'.value = ToggleOf(minifier, op'.name)) =>
          /\ minifier'.action.id = minifier.action.id
          /\ nextId' = nextId
          /\ minifier' = minifier
          /\ Minify(minifier', code) = Minify(minifier, code)
      ]_vars

\* a minifier that has had a setter call and still holds the composite its
\* constructor built
C3_Witness ==
    /\ op.name = "set_preserve_newlines"
    /\ op.value = minifier.preserve_newlines
    /\ minifier.action.id = 0
    /\ nextId = 1

\* the classes of the actions of a pipeline, in order
ClassesOf(action_list) ==
    [i \in 1..Len(action_list) |-> ClassName(action_list[i])]

\* no whitespace stands immediately before or after a character of set
NoSpaceAround(set, text) ==
    \A i \in 1..Len(text) :
        text[i] \in set =>
            /\ i > 1 => ~IsSpace(text[i - 1])
            /\ i < Len(text) => ~IsSpace(text[i + 1])

\* C14: in every state of a JavaScriptMinifier (after the constructor and
\* after any sequence of set_preserve_newlines / set_aggressive calls) the
\* pipeline is comment removal, whitespace reduction, empty-line removal,
\* followed by operator-space removal as its last step exactly when
\* aggressive is true or preserve_newlines is false.  Only with
\* preserve_newlines=True and aggressive=False does a single space around
\* '=' or '+' survive minify: there each non-blank line comes out as its
\* words one space apart; in the other states no whitespace is left next
\* to '=' or '+' ("var x = 1 + 2;" gives "var x=1+2;").
C14_OperatorPassLast ==
    minifier.kind = "javascript" =>
        LET classes == ClassesOf(minifier.action.actions)
            last    == classes[Len(classes)]
            removes == minifier.aggressive \/ ~minifier.preserve_newlines
            base    == <<"CommentRemovalAction", "WhitespaceReductionAction",
                         "EmptyLineRemovalAction">>
        IN  /\ (last = "OperatorSpaceRemovalAction") <=> removes
            /\ classes = IF removes
                         THEN Append(base, "OperatorSpaceRemovalAction")
                         ELSE base
            /\ (op.name = "minify" /\ removes) =>
                  /\ NoSpaceAround({"=", "+"}, result)
                  /\ code = ExampleJs =>
                        result = <<"v", "a", "r", " ", "x", "=", "1", "+", "2", ";">>
            /\ (op.name = "minify" /\ ~removes) =>
                  LET kept == SelectSeq(Split(code), HasInk)
                  IN  result = Join(<<"\n">>,
                                 [i \in 1..Len(kept) |-> Normalised(kept[i])])

\* set_aggressive(True) on a default minifier, then minify of
\* "var x = 1 + 2;": the rebuilt pipeline ends with the operator pass
C14_Witness ==
    /\ minifier.kind = "javascript"
    /\ minifier.preserve_newlines /\ minifier.aggressive
    /\ minifier.action.id > 0
    /\ op.name = "minify"
    /\ code = ExampleJs
    /\ result = <<"v", "a", "r", " ", "x", "=", "1", "+", "2", ";">>

\* ------------------------------------------------------------------ minify on texts of each language

Quotes3 == <<"\"", "\"", "\"">>
Apostrophes3 == <<"'", "'", "'">>

\* what the texts given to each minifier are made of
PythonTokens ==
    {Quotes3, Apostrophes3, <<"#">>, <<"a">>, <<" ">>, <<"\n">>}
JavaScriptTokens ==
    {<<"/", "/">>, <<"/", "*">>, <<"*", "/">>, <<"+">>, <<"a">>, <<" ">>, <<"\n">>}
CssTokens ==
    {<<"/", "*">>, <<"*", "/">>, <<"{">>, <<":">>, <<"a">>, <<" ">>, <<"\n">>}
HtmlTokens ==
    {<<"<", "!", "-", "-">>, <<"-", "-", ">">>, <<"/", "*">>, <<"*", "/">>,
     <<"/", "/">>, <<"a">>, <<"\n">>}

\* "body {\n  color: #333;\n}"
ExampleCss ==
    <<"b", "o", "d", "y", " ", "{", "\n", " ", " ", "c", "o", "l", "o", "r",
      ":", " ", "#", "3", "3", "3", ";", "\n", "}">>

RECURSIVE Flatten(_)
Flatten(parts) ==
    IF parts = <<>> THEN <<>> ELSE Head(parts) \o Flatten(Tail(parts))

\* the texts of at most n tokens
TokenTexts(tokens, n) == {Flatten(parts) : parts \in TextsOver(tokens, n)}

InputsFor(kind) ==
    CASE kind = "python"     -> TokenTexts(PythonTokens, MaxTokens)
      [] kind = "javascript" -> TokenTexts(JavaScriptTokens, MaxTokens) \cup {ExampleJs}
      [] kind = "css"        -> TokenTexts(CssTokens, MaxTokens) \cup {ExampleCss}
      [] kind = "html"       -> TokenTexts(HtmlTokens, MaxTokens)

\* a minifier of any configuration, as constructed, and a text to minify
InitOutput ==
    /\ minifier \in
          {PythonMinifier(n, d, 0) : n \in BOOLEAN, d \in BOOLEAN}
              \cup {JavaScriptMinifier(n, a, 0) : n \in BOOLEAN, a \in BOOLEAN}
              \cup {CSSMinifier(0)}
              \cup {HTMLMinifier(n, 0) : n \in BOOLEAN}
    /\ nextId = 1
    /\ code \in InputsFor(minifier.kind)
    /\ result = <<>>
    /\ op = NoCall
    /\ composite = NoComposite
    /\ actions = <<>>
    /\ made = NoAction
    /\ error = None
    /\ fs = NoFileSystem
    /\ job = NoJob
    /\ project = NoProject

\* minifier.minify(code), once
MinifyOnce ==
    /\ op.name = "init"
    /\ MinifyCode

NextOutput == MinifyOnce

SpecOutput == InitOutput /\ [][NextOutput]_vars

\* ------------------------------------------------------------------ claims about the output of minify

\* part occurs in text
Contains(text, part) ==
    \E p \in 1..Len(text) - Len(part) + 1 : StartsWithAt(text, p, part)

\* C13: the output of a PythonMinifier with the default settings
\* (preserve_newlines=True, preserve_docstrings=False) contains no '#' (every
\* '#' to the end of its line is removed) and no blank line: no line of a
\* non-empty output is empty or whitespace-only, so no two newlines are
\* consecutive.
C13_NoCommentNoBlankLine ==
    (op.name = "minify" /\ minifier.kind = "python"
        /\ minifier.preserve_newlines /\ ~minifier.preserve_docstrings) =>
        /\ \A i \in 1..Len(result) : result[i] # "#"
        /\ \A k \in 1..Len(LinesOf(result)) : HasInk(LinesOf(result)[k])
        /\ ~Contains(result, <<"\n", "\n">>)

\* minify of "a#\n\n" by a default PythonMinifier: a comment and the blank
\* lines were removed
C13_Witness ==
    /\ op.name = "minify" /\ minifier.kind = "python"
    /\ minifier.preserve_newlines /\ ~minifier.preserve_docstrings
    /\ code = <<"a", "#", "\n", "\n">>
    /\ result = <<"a">>

\* C15: the output of CSSMinifier.minify contains no newline, no two
\* consecutive spaces and no whitespace next to a bracket, brace, colon,
\* comma or operator character; "body {\n  color: #333;\n}" gives a text
\* containing "color:#333".
C15_CssOneDenseLine ==
    (op.name = "minify" /\ minifier.kind = "css") =>
        /\ \A i \in 1..Len(result) : result[i] # "\n"
        /\ ~Contains(result, <<" ", " ">>)
        /\ NoSpaceAround(OperatorCharacters, result)
        /\ code = ExampleCss =>
              Contains(result, <<"c", "o", "l", "o", "r", ":", "#", "3", "3", "3">>)

\* minify of "body {\n  color: #333;\n}" gives "body{color:#333;}"
C15_Witness ==
    /\ op.name = "minify" /\ minifier.kind = "css"
    /\ code = ExampleCss
    /\ result = <<"b", "o", "d", "y", "{", "c", "o", "l", "o", "r", ":",
                  "#", "3", "3", "3", ";", "}">>

\* the triple-quoted blocks of a text from position p on: the matches of
\* the docstring pattern, leftmost first and not overlapping
RECURSIVE BlocksFrom(_, _)
BlocksFrom(text, p) ==
    IF p > Len(text) THEN <<>>
    ELSE LET e == MatchEnd(PY_MULTI, text, p)
         IN  IF e = 0 THEN BlocksFrom(text, p + 1)
             ELSE <<[first |-> p, last |-> e - 1]>> \o BlocksFrom(text, e)

\* the position where the line of position p starts
RECURSIVE LineStart(_, _)
LineStart(text, p) ==
    IF p = 1 \/ text[p - 1] = "\n" THEN p ELSE LineStart(text, p - 1)

\* no '#' stands in the block or before it on the line where it opens
Uncommented(text, block) ==
    \A i \in LineStart(text, block.first)..block.last : text[i] # "#"

\* the block is in the output with its delimiters and its text, whitespace
\* apart
BlockKept(block) ==
    Contains(Ink(result), Ink(SubSeq(code, block.first, block.last)))

\* C16 as stated: with preserve_docstrings=True, for every input, each
\* triple-quoted block (either quote style) of the input is still present in
\* the PythonMinifier output with its delimiters and its text intact apart
\* from whitespace collapsing.
C16_DocstringsKept ==
    (op.name = "minify" /\ minifier.kind = "python"
        /\ minifier.preserve_docstrings) =>
        LET blocks == BlocksFrom(code, 1)
        IN  \A k \in 1..Len(blocks) : BlockKept(blocks[k])

\* C16 amended: with preserve_docstrings=True, each triple-quoted block
\* (either quote style) of the input that contains no '#' and follows no '#'
\* on the line where it opens is still present in the PythonMinifier output
\* with its delimiters and its text intact apart from whitespace.
C16_UncommentedDocstringsKept ==
    (op.name = "minify" /\ minifier.kind = "python"
        /\ minifier.preserve_docstrings) =>
        LET blocks == BlocksFrom(code, 1)
        IN  \A k \in 1..Len(blocks) :
                Uncommented(code, blocks[k]) => BlockKept(blocks[k])

\* minify with preserve_docstrings=True of a docstring of two empty lines:
\* the delimiters are kept, one line apart
C16_Witness ==
    /\ op.name = "minify" /\ minifier.kind = "python"
    /\ minifier.preserve_docstrings /\ minifier.preserve_newlines
    /\ code = Quotes3 \o <<"\n", "\n">> \o Quotes3
    /\ result = Quotes3 \o <<"\n">> \o Quotes3

\* C17: with preserve_newlines=True, for both values of aggressive, the
\* lines of the JavaScriptMinifier output are the non-blank lines left by
\* comment removal, one output line each and in order, changed in their
\* whitespace only: two lines that are non-blank and adjacent after comment
\* removal are on two lines of the output.
C17_LineBoundariesKept ==
    (op.name = "minify" /\ minifier.kind = "javascript"
        /\ minifier.preserve_newlines) =>
        LET stripped == CommentRemovalApply(
                            CommentRemovalAction(JS_SINGLE, JS_MULTI), code)
            kept == SelectSeq(Split(stripped), HasInk)
            outl == LinesOf(result)
        IN  /\ Len(outl) = Len(kept)
            /\ \A k \in 1..Len(kept) : Ink(outl[k]) = Ink(kept[k])

\* ------------------------------------------------------------------ the file processor

\* A path is a text with "/" between its components. The file system maps
\* the path of each existing file to its content; a file whose bytes are
\* no UTF-8 text has the content Undecodable; open(path, 'w') fails on
\* the paths of locked.
Undecodable == <<"\\xff">>

\* the last position of character c in text, 0 when there is none
LastIndexOf(text, c) ==
    LET at == {i \in 1..Len(text) : text[i] = c}
    IN  IF at = {} THEN 0 ELSE CHOOSE i \in at : \A j \in at : j <= i

\* os.path.splitext(path): <<base, ext>>, cut at the last dot of the last
\* component unless only dots stand before it in that component
SplitExt(path) ==
    LET sep == LastIndexOf(path, "/")
        dot == LastIndexOf(path, ".")
    IN  IF dot > sep /\ \E i \in (sep + 1)..(dot - 1) : path[i] # "."
        THEN <<SubSeq(path, 1, dot - 1), SubSeq(path, dot, Len(path))>>
        ELSE <<path, <<>>>>

\* FileProcessor.read_file: the content, or the exception raised
read_file(files, file_path) ==
    IF file_path \notin DOMAIN files.files
    THEN [value |-> <<>>, raised |-> "FileNotFoundError"]
    ELSE IF files.files[file_path] = Undecodable
    THEN [value |-> <<>>, raised |-> "UnicodeDecodeError"]
    ELSE [value |-> files.files[file_path], raised |-> None]

\* FileProcessor.write_file: the file system after the call, or the
\* exception raised
write_file(files, file_path, content) ==
    IF file_path \in files.locked
    THEN [fs |-> files, raised |-> "PermissionError"]
    ELSE [fs |-> [files EXCEPT !.files = (file_path :> content) @@ @],
          raised |-> None]

\* FileProcessor.delete_file (os.remove)
delete_file(files, file_path) ==
    IF file_path \notin DOMAIN files.files
    THEN [fs |-> files, raised |-> "FileNotFoundError"]
    ELSE IF file_path \in files.locked
    THEN [fs |-> files, raised |-> "PermissionError"]
    ELSE [fs |-> [files EXCEPT !.files =
                     [path \in DOMAIN @ \ {file_path} |-> @[path]]],
          raised |-> None]

\* the value of a set of one value: the set computes an intermediate
\* result once, where a definition is computed again at each use
ValueOf(values) == CHOOSE value \in values : TRUE

\* FileProcessor.get_minified_path
get_minified_path(file_path, suffix) ==
    LET parts == SplitExt(file_path)
    IN  parts[1] \o suffix \o parts[2]

\* FileProcessor.file_exists
file_exists(files, file_path) == file_path \in DOMAIN files.files

\* ------------------------------------------------------------------ the minification job

\* MinificationJob.__init__
MinificationJob(file_path, language_minifier, suffix) ==
    [file_path |-> file_path,
     minifier |-> language_minifier,
     suffix |-> suffix,
     minified_path |-> get_minified_path(file_path, suffix)]

\* what execute leaves when an exception passes through its except clause
Raised(files, exception) ==
    [fs |-> files, returned |-> FALSE, wrote |-> FALSE, raised |-> exception]

\* a plausible bug: the comparison with the existing file is left out
execute_always(self, files) ==
    LET source == read_file(files, self.file_path)
    IN  IF source.raised # None THEN Raised(files, source.raised)
        ELSE LET minified_code == Minify(self.minifier, source.value)
                 written == write_file(files, self.minified_path, minified_code)
             IN  IF written.raised # None THEN Raised(files, written.raised)
                 ELSE [fs |-> written.fs, returned |-> TRUE, wrote |-> TRUE,
                       raised |-> None]

\* MinificationJob.execute on the file system files: the file system it
\* leaves, the value returned, whether write_file was called with success,
\* and the exception re-raised (returned is meaningless then)
execute(self, files) ==
    LET source == read_file(files, self.file_path)
    IN  IF source.raised # None THEN Raised(files, source.raised)
        ELSE
        LET minified_code == Minify(self.minifier, source.value)
            existing == IF file_exists(files, self.minified_path)
                        THEN read_file(files, self.minified_path)
                        ELSE [value |-> <<>>, raised |-> None]
        IN  IF existing.raised # None THEN Raised(files, existing.raised)
            ELSE IF file_exists(files, self.minified_path)
                    /\ existing.value = minified_code
            THEN [fs |-> files, returned |-> FALSE, wrote |-> FALSE,
                  raised |-> None]
            ELSE
            LET written == write_file(files, self.minified_path, minified_code)
            IN  IF written.raised # None THEN Raised(files, written.raised)
                ELSE [fs |-> written.fs, returned |-> TRUE, wrote |-> TRUE,
                      raised |-> None]

\* ------------------------------------------------------------------ a job in use

\* "r/a.js", the file of the job
SourcePath == <<"r", "/", "a", ".", "j", "s">>

\* ".min" (the default) and "-m"
Suffixes == {<<".", "m", "i", "n">>, <<"-", "m">>}

\* contents of the source file: "a \n" and "a" (both minified to "a") and
\* "//a" (minified to the empty text)
SourceTexts == {<<"a", " ", "\n">>, <<"a">>, <<"/", "/", "a">>}

\* contents of a derived file left by an earlier run or by the user
DerivedTexts == {<<"a">>, <<"b">>, Undecodable}

\* the file systems with at most the source file and the derived file
JobFileSystems(derived_path) ==
    LET sources == {<<>>} \cup
                   {SourcePath :> t : t \in SourceTexts \cup {Undecodable}}
        deriveds == {<<>>} \cup {derived_path :> t : t \in DerivedTexts}
    IN  {[files |-> s @@ d, locked |-> l] :
            s \in sources, d \in deriveds, l \in {{}, {derived_path}}}

\* the call record of the file layer: the events so far ("True", "False"
\* or "raised" for a call, "edit" for a change of a source file)
NoFileCall ==
    [name |-> "init", returned |-> FALSE, wrote |-> FALSE, history |-> <<>>]

InitJob ==
    /\ \E suffix \in Suffixes :
          /\ job = MinificationJob(SourcePath, JavaScriptMinifier(TRUE, FALSE, 0),
                                   suffix)
          /\ fs \in JobFileSystems(get_minified_path(SourcePath, suffix))
    /\ op = NoFileCall
    /\ error = None
    /\ project = NoProject
    /\ code = <<>>
    /\ result = <<>>
    /\ composite = NoComposite
    /\ actions = <<>>
    /\ minifier = NoMinifier
    /\ nextId = 1
    /\ made = NoAction

\* job.execute()
Execute ==
    /\ Len(op.history) < MaxRuns
    /\ \E r \in {execute(job, fs)} :
           /\ fs' = r.fs
           /\ error' = r.raised
           /\ op' = [name |-> "execute",
                     returned |-> r.returned,
                     wrote |-> r.wrote,
                     history |-> Append(op.history,
                                    IF r.raised # None THEN "raised"
                                    ELSE IF r.returned THEN "True" ELSE "False")]
    /\ UNCHANGED <<code, result, composite, actions, minifier, nextId, made,
                   job, project>>

\* the user saves another text in the source file
EditSource ==
    /\ Len(op.history) < MaxRuns
    /\ \E text \in SourceTexts :
          /\ SourcePath \in DOMAIN fs.files => fs.files[SourcePath] # text
          /\ fs' = [fs EXCEPT !.files = (SourcePath :> text) @@ @]
    /\ op' = [name |-> "edit", returned |-> FALSE, wrote |-> FALSE,
              history |-> Append(op.history, "edit")]
    /\ UNCHANGED <<code, result, composite, actions, minifier, nextId, made,
                   error, job, project>>

NextJob == Execute \/ EditSource

SpecJob == InitJob /\ [][NextJob]_vars

\* C18: MinificationJob.execute writes the derived (suffixed) file exactly
\* when that file does not exist or its content differs from the minified
\* source, returns True iff it wrote and False iff it skipped the write;
\* after it returned, the derived file holds minify(source), the source
\* file and every other file are untouched; and a second execute with the
\* source unchanged returns False and writes nothing.
C18_ExecuteWritesWhenNeeded ==
    [][ (op'.name = "execute" /\ Len(op'.history) = Len(op.history) + 1) =>
          LET src  == job.file_path
              dst  == job.minified_path
          IN  /\ error' = None =>
                    LET want == Minify(job.minifier, fs.files[src])
                    IN  /\ op'.wrote <=>
                              (dst \notin DOMAIN fs.files \/ fs.files[dst] # want)
                        /\ op'.returned <=> op'.wrote
                        /\ ~op'.wrote => fs' = fs
                        /\ dst \in DOMAIN fs'.files /\ fs'.files[dst] = want
                        /\ fs'.files[src] = fs.files[src]
                        /\ DOMAIN fs'.files = DOMAIN fs.files \cup {dst}
                        /\ fs'.locked = fs.locked
              /\ (op.name = "execute" /\ error = None) =>
                    /\ error' = None
                    /\ ~op'.returned /\ ~op'.wrote
                    /\ fs' = fs
      ]_vars

\* a first execute wrote the derived file of "a \n" and the second one,
\* the source unchanged, returned False
C18_Witness ==
    /\ op.name = "execute"
    /\ op.history = <<"True", "False">>
    /\ ~op.returned /\ ~op.wrote
    /\ error = None
    /\ fs.files[job.file_path] = <<"a", " ", "\n">>
    /\ fs.files[job.minified_path] = <<"a">>

\* ------------------------------------------------------------------ the registry

\* str.lower on the letters the file names and language names are made of
LowerChar(c) ==
    CASE c = "J" -> "j"
      [] c = "S" -> "s"
      [] c = "P" -> "p"
      [] c = "Y" -> "y"
      [] OTHER -> c

Lower(text) == [i \in 1..Len(text) |-> LowerChar(text[i])]

\* the name property of a language minifier
Name(self) ==
    CASE self.kind = "python"     -> <<"p", "y", "t", "h", "o", "n">>
      [] self.kind = "javascript" -> <<"j", "a", "v", "a", "s", "c", "r", "i", "p", "t">>
      [] self.kind = "css"        -> <<"c", "s", "s">>
      [] self.kind = "html"       -> <<"h", "t", "m", "l">>
      [] self.kind = "custom"     -> self.name

\* the file_extensions property of a language minifier
FileExtensions(self) ==
    CASE self.kind = "python"     -> << <<".", "p", "y">> >>
      [] self.kind = "javascript" -> << <<".", "j", "s">> >>
      [] self.kind = "css"        -> << <<".", "c", "s", "s">> >>
      [] self.kind = "html"       -> << <<".", "h", "t", "m", "l">>,
                                        <<".", "h", "t", "m">> >>
      [] self.kind = "custom"     -> self.file_extensions

\* create_custom_minifier, as the registry sees its result: an object with
\* the name and the extensions given
create_custom_minifier(name, extensions, id) ==
    New(id, [kind |-> "custom", name |-> name, file_extensions |-> extensions])

\* MinifierRegistry.__init__: the two dictionaries, empty
MinifierRegistry == [minifiers |-> <<>>, extension_map |-> <<>>]

\* a plausible bug: an entry already present is kept (dict.setdefault)
register_minifier_keepsFirst(self, language_minifier) ==
    LET exts == FileExtensions(language_minifier)
        keys == {Lower(exts[i]) : i \in 1..Len(exts)}
    IN  [minifiers |-> self.minifiers
                            @@ (Lower(Name(language_minifier)) :> language_minifier),
         extension_map |-> self.extension_map
                            @@ [e \in keys |-> language_minifier]]

\* MinifierRegistry.register_minifier
register_minifier(self, language_minifier) ==
    LET exts == FileExtensions(language_minifier)
        keys == {Lower(exts[i]) : i \in 1..Len(exts)}
    IN  [minifiers |-> (Lower(Name(language_minifier)) :> language_minifier)
                            @@ self.minifiers,
         extension_map |-> [e \in keys |-> language_minifier]
                            @@ self.extension_map]

\* MinifierRegistry.get_minifier_by_name: the minifier, NoMinifier for None
get_minifier_by_name(self, name) ==
    IF Lower(name) \in DOMAIN self.minifiers
    THEN self.minifiers[Lower(name)]
    ELSE NoMinifier

\* MinifierRegistry.get_minifier_for_extension
get_minifier_for_extension(self, extension) ==
    LET dotted == IF StartsWithAt(extension, 1, <<".">>)
                  THEN extension
                  ELSE <<".">> \o extension
    IN  IF Lower(dotted) \in DOMAIN self.extension_map
        THEN self.extension_map[Lower(dotted)]
        ELSE NoMinifier

\* MinifierRegistry.get_supported_extensions, as a set
get_supported_extensions(self) == DOMAIN self.extension_map

\* MinifierRegistry.get_all_minifiers, as a set
get_all_minifiers(self) == {self.minifiers[name] : name \in DOMAIN self.minifiers}

\* cli.setup_registry: the four language minifiers with their defaults
setup_registry ==
    register_minifier(
        register_minifier(
            register_minifier(
                register_minifier(MinifierRegistry, PythonMinifier(TRUE, FALSE, 0)),
                JavaScriptMinifier(TRUE, FALSE, 1)),
            CSSMinifier(2)),
        HTMLMinifier(TRUE, 3))

\* ------------------------------------------------------------------ a registry in use

JavaScriptName == <<"J", "a", "v", "a", "S", "c", "r", "i", "p", "t">>

\* the minifiers a caller may register, built as objects of identity id:
\* three language minifiers, a custom minifier "JS" for ".JS", and a custom
\* minifier "JavaScript" for ".htm" and ".py"
Registrable(id) ==
    {PythonMinifier(TRUE, FALSE, id),
     JavaScriptMinifier(TRUE, FALSE, id),
     HTMLMinifier(TRUE, id),
     create_custom_minifier(<<"J", "S">>, << <<".", "J", "S">> >>, id),
     create_custom_minifier(JavaScriptName,
                            << <<".", "h", "t", "m">>, <<".", "p", "y">> >>, id)}

\* the names and the extensions asked for
NameQueries ==
    {<<"j", "s">>, <<"J", "S">>, JavaScriptName, Lower(JavaScriptName),
     <<"h", "t", "m", "l">>, <<"c", "s", "s">>}
ExtensionQueries ==
    {<<".", "j", "s">>, <<".", "J", "S">>, <<"j", "s">>, <<"J", "S">>,
     <<".", "h", "t", "m">>, <<"h", "t", "m", "l">>, <<".", "p", "y">>,
     <<".", "c", "s", "s">>}

\* the registry is the one of the project minifier; op.registered lists
\* the minifiers registered so far, in the order of the calls
InitRegistry ==
    /\ project = [minifier_registry |-> MinifierRegistry, files_to_skip |-> <<>>]
    /\ op = [name |-> "init", registered |-> <<>>]
    /\ nextId = 0
    /\ error = None
    /\ fs = NoFileSystem
    /\ job = NoJob
    /\ code = <<>>
    /\ result = <<>>
    /\ composite = NoComposite
    /\ actions = <<>>
    /\ minifier = NoMinifier
    /\ made = NoAction

\* registry.register_minifier(m), m a new object
RegisterMinifier ==
    /\ nextId < MaxObjects
    /\ \E m \in Registrable(nextId) :
          /\ project' = [project EXCEPT
                            !.minifier_registry = register_minifier(@, m)]
          /\ op' = [name |-> "register_minifier",
                    registered |-> Append(op.registered, m)]
    /\ nextId' = nextId + 1
    /\ UNCHANGED <<code, result, composite, actions, minifier, made, error,
                   fs, job>>

\* registry.get_minifier_by_name(name)
GetMinifierByName ==
    /\ op.name \in {"init", "register_minifier"}
    /\ \E name \in NameQueries :
          op' = [name |-> "get_minifier_by_name",
                 registered |-> op.registered,
                 query |-> name,
                 returned |-> get_minifier_by_name(project.minifier_registry,
                                                   name)]
    /\ UNCHANGED <<code, result, composite, actions, minifier, nextId, made,
                   error, fs, job, project>>

\* registry.get_minifier_for_extension(extension)
GetMinifierForExtension ==
    /\ op.name \in {"init", "register_minifier"}
    /\ \E extension \in ExtensionQueries :
          op' = [name |-> "get_minifier_for_extension",
                 registered |-> op.registered,
                 query |-> extension,
                 returned |-> get_minifier_for_extension(
                                  project.minifier_registry, extension)]
    /\ UNCHANGED <<code, result, composite, actions, minifier, nextId, made,
                   error, fs, job, project>>

\* registry.get_supported_extensions()
GetSupportedExtensions ==
    /\ op.name \in {"init", "register_minifier"}
    /\ op' = [name |-> "get_supported_extensions",
              registered |-> op.registered,
              returned |-> get_supported_extensions(project.minifier_registry)]
    /\ UNCHANGED <<code, result, composite, actions, minifier, nextId, made,
                   error, fs, job, project>>

NextRegistry ==
    \/ RegisterMinifier
    \/ GetMinifierByName
    \/ GetMinifierForExtension
    \/ GetSupportedExtensions

SpecRegistry == InitRegistry /\ [][NextRegistry]_vars

\* the last minifier of a list that meets a test, NoMinifier if none does
LastOf(registered, Meets(_)) ==
    LET at == {i \in 1..Len(registered) : Meets(registered[i])}
    IN  IF at = {} THEN NoMinifier
        ELSE registered[CHOOSE i \in at : \A j \in at : j <= i]

\* an extension with its leading dot
Dotted(extension) ==
    IF StartsWithAt(extension, 1, <<".">>) THEN extension
    ELSE <<".">> \o extension

\* the minifier lists the extension, case ignored
Lists(language_minifier, extension) ==
    \E i \in 1..Len(FileExtensions(language_minifier)) :
        Lower(FileExtensions(language_minifier)[i]) = Lower(extension)

\* C23: after any sequence of register_minifier calls,
\* get_minifier_by_name(n) returns the most recently registered minifier
\* whose name equals n ignoring case, or nothing;
\* get_minifier_for_extension(e) returns the most recently registered
\* minifier that lists e (ignoring case, leading dot optional), or
\* nothing; get_supported_extensions is the set of the lower-cased
\* extensions of all minifiers ever registered.
C23_LookupsFollowRegistrations ==
    /\ op.name = "get_minifier_by_name" =>
          LET named(m) == Lower(Name(m)) = Lower(op.query)
          IN  op.returned = LastOf(op.registered, named)
    /\ op.name = "get_minifier_for_extension" =>
          LET lists(m) == Lists(m, Dotted(op.query))
          IN  op.returned = LastOf(op.registered, lists)
    /\ op.name = "get_supported_extensions" =>
          op.returned =
              UNION {{Lower(FileExtensions(op.registered[i])[j]) :
                         j \in 1..Len(FileExtensions(op.registered[i]))} :
                     i \in 1..Len(op.registered)}

\* "js" asked after JavaScriptMinifier, then the custom "JS", then an
\* HTMLMinifier were registered: the custom minifier is returned
C23_Witness ==
    /\ op.name = "get_minifier_for_extension"
    /\ op.query = <<"j", "s">>
    /\ Len(op.registered) = 3
    /\ op.registered[1].kind = "javascript"
    /\ op.registered[2].kind = "custom"
    /\ op.registered[3].kind = "html"
    /\ op.returned = op.registered[2]

\* C27: after any sequence of register_minifier calls (a second minifier
\* under a name already used, or with an extension already used,
\* included), the minifier returned by get_minifier_for_extension(e) for
\* a supported extension e is one of get_all_minifiers, that is, it is the
\* minifier registered under its own name.
C27_ExtensionsLeadToRegistered ==
    LET registry == project.minifier_registry
    IN  \A e \in get_supported_extensions(registry) :
            LET found == get_minifier_for_extension(registry, e)
            IN  /\ found \in get_all_minifiers(registry)
                /\ get_minifier_by_name(registry, Name(found)) = found

\* ------------------------------------------------------------------ the project minifier

Pycache == <<"_", "_", "p", "y", "c", "a", "c", "h", "e", "_", "_">>

\* ".min.", the marker minify_project looks for in a file name
DotMinDot == <<".", "m", "i", "n", ".">>

\* `part in text` of Python
In(part, text) ==
    \E p \in 1..(Len(text) - Len(part) + 1) : StartsWithAt(text, p, part)

\* the folder of a path and its file name
DirName(path) == SubSeq(path, 1, LastIndexOf(path, "/") - 1)
BaseName(path) == SubSeq(path, LastIndexOf(path, "/") + 1, Len(path))

\* ProjectMinifier.__init__: an absent or empty files_to_skip (here <<>>)
\* gives the default list
ProjectMinifier(minifier_registry, files_to_skip) ==
    [minifier_registry |-> minifier_registry,
     files_to_skip |-> IF files_to_skip # <<>> THEN files_to_skip
                       ELSE <<Pycache>>]

\* ProjectMinifier._get_extensions_to_process; languages and extensions
\* are lists, <<>> for None
get_extensions_to_process(self, languages, extensions) ==
    LET of_language(name) ==
            LET found == get_minifier_by_name(self.minifier_registry, name)
            IN  IF found.kind = None THEN {}
                ELSE {FileExtensions(found)[i] :
                        i \in 1..Len(FileExtensions(found))}
        dotted(ext) == IF StartsWithAt(ext, 1, <<".">>) THEN ext
                       ELSE <<".">> \o ext
        extensions_to_process ==
            UNION {of_language(languages[i]) : i \in 1..Len(languages)}
                \cup {Lower(dotted(extensions[i])) : i \in 1..Len(extensions)}
    IN  IF extensions_to_process = {}
        THEN get_supported_extensions(self.minifier_registry)
        ELSE extensions_to_process

\* the test on a folder of os.walk: some entry of files_to_skip is part of
\* its path
SkipThisDir(self, foldername) ==
    \E i \in 1..Len(self.files_to_skip) : In(self.files_to_skip[i], foldername)

\* the files os.walk(root_dir) lists in the folders that are not skipped
Visited(self, files, root_dir) ==
    {path \in DOMAIN files.files :
        /\ StartsWithAt(path, 1, root_dir \o <<"/">>)
        /\ ~SkipThisDir(self, DirName(path))}

\* one listing of a set of paths; the order os.walk lists a folder in is
\* not specified
RECURSIVE Listing(_)
Listing(paths) ==
    IF paths = {} THEN <<>>
    ELSE LET path == CHOOSE path \in paths : TRUE
         IN  <<path>> \o Listing(paths \ {path})

Reverse(list) == [i \in 1..Len(list) |-> list[Len(list) + 1 - i]]

\* a plausible bug: a file whose job raised is counted as processed
ProcessFile_countsFailed(self, acc, file_path, extensions_to_process, suffix) ==
    LET filename == BaseName(file_path)
        file_ext == Lower(SplitExt(filename)[2])
        found    == get_minifier_for_extension(self.minifier_registry, file_ext)
        note(what) == (file_path :> what) @@ acc.outcome
        after(done) ==
            IF done.raised # None
            THEN [acc EXCEPT !.processed = @ + 1, !.outcome = note("raised")]
            ELSE IF done.returned
            THEN [acc EXCEPT !.fs = done.fs, !.processed = @ + 1,
                             !.outcome = note("True")]
            ELSE [acc EXCEPT !.outcome = note("False")]
    IN  IF In(DotMinDot, filename)
        THEN [acc EXCEPT !.skipped = @ + 1, !.outcome = note("skipped")]
        ELSE IF file_ext \notin extensions_to_process \/ found.kind = None
        THEN [acc EXCEPT !.outcome = note("ignored")]
        ELSE ValueOf({after(done) : done \in
                {execute(MinificationJob(file_path, found, suffix), acc.fs)}})

\* the body of the loop over the file names, for one file; acc holds the
\* file system, the two counters and what happened to each file so far
ProcessFile(self, acc, file_path, extensions_to_process, suffix) ==
    LET filename == BaseName(file_path)
        file_ext == Lower(SplitExt(filename)[2])
        found    == get_minifier_for_extension(self.minifier_registry, file_ext)
        note(what) == (file_path :> what) @@ acc.outcome
        after(done) ==
            IF done.raised # None
            THEN [acc EXCEPT !.outcome = note("raised")]
            ELSE IF done.returned
            THEN [acc EXCEPT !.fs = done.fs, !.processed = @ + 1,
                             !.outcome = note("True")]
            ELSE [acc EXCEPT !.outcome = note("False")]
    IN  IF In(DotMinDot, filename)
        THEN [acc EXCEPT !.skipped = @ + 1, !.outcome = note("skipped")]
        ELSE IF file_ext \notin extensions_to_process \/ found.kind = None
        THEN [acc EXCEPT !.outcome = note("ignored")]
        ELSE ValueOf({after(done) : done \in
                {execute(MinificationJob(file_path, found, suffix), acc.fs)}})

RECURSIVE MinifyLoop(_, _, _, _, _)
MinifyLoop(self, acc, order, extensions_to_process, suffix) ==
    IF order = <<>> THEN acc
    ELSE ValueOf({MinifyLoop(self, next, Tail(order), extensions_to_process,
                             suffix) : next \in
            {ProcessFile(self, acc, Head(order), extensions_to_process,
                         suffix)}})

\* ProjectMinifier.minify_project on the file system files, the folders
\* listed in one order or in the opposite one: the object and the file
\* system it leaves, the pair returned, what happened to each visited file
minify_project(self, files, root_dir, languages, extensions, suffix, files_to_skip, reversed) ==
    LET extended == IF files_to_skip # <<>>
                    THEN [self EXCEPT !.files_to_skip = @ \o files_to_skip]
                    ELSE self
        extensions_to_process ==
            get_extensions_to_process(extended, languages, extensions)
        listing == Listing(Visited(extended, files, root_dir))
        leaving(final) ==
            [self |-> extended,
             fs |-> final.fs,
             returned |-> <<final.processed, final.skipped>>,
             outcome |-> final.outcome]
    IN  ValueOf({leaving(final) : final \in
            {MinifyLoop(extended,
                        [fs |-> files, processed |-> 0, skipped |-> 0,
                         outcome |-> <<>>],
                        IF reversed THEN Reverse(listing) ELSE listing,
                        extensions_to_process, suffix)}})

\* the body of the loop of delete_minified_files, for one file; acc holds
\* the file system and the counter
DeleteFile(acc, file_path, suffix, extensions) ==
    LET filename == BaseName(file_path)
        file_ext == Lower(SplitExt(filename)[2])
        listed   == \E i \in 1..Len(extensions) : extensions[i] = file_ext
        after(done) == IF done.raised # None THEN acc
                       ELSE [fs |-> done.fs, count |-> acc.count + 1]
    IN  IF In(suffix, filename) /\ (extensions = None \/ listed)
        THEN ValueOf({after(done) : done \in {delete_file(acc.fs, file_path)}})
        ELSE acc

RECURSIVE DeleteLoop(_, _, _, _)
DeleteLoop(acc, order, suffix, extensions) ==
    IF order = <<>> THEN acc
    ELSE ValueOf({DeleteLoop(next, Tail(order), suffix, extensions) : next \in
            {DeleteFile(acc, Head(order), suffix, extensions)}})

\* ProjectMinifier.delete_minified_files on the file system files
\* (extensions is a list, or None): the file system it leaves and the
\* count returned; os.walk visits every folder here
delete_minified_files(self, files, root_dir, suffix, extensions) ==
    LET walked == {path \in DOMAIN files.files :
                      StartsWithAt(path, 1, root_dir \o <<"/">>)}
        leaving(final) == [fs |-> final.fs, returned |-> final.count]
    IN  ValueOf({leaving(final) : final \in
            {DeleteLoop([fs |-> files, count |-> 0], Listing(walked), suffix,
                        extensions)}})

\* ------------------------------------------------------------------ a project minifier in use

\* the project folder "r"
RootDir == <<"r">>

\* the files a project may hold at first, each with its possible contents:
\* a JavaScript source, a file named as its ".min" counterpart (up to date
\* or stale), a JavaScript source "a.mini.js", a
\* Python source (readable or not), a text file and a Python file in a
\* __pycache__ folder
ProjectFiles ==
    LET at(name) == RootDir \o <<"/">> \o name
    IN  (at(<<"a", ".", "j", "s">>) :> {<<"a", " ", "\n">>})
     @@ (at(<<"a", ".", "m", "i", "n", ".", "j", "s">>) :> {<<"a">>, <<"b">>})
     @@ (at(<<"a", ".", "m", "i", "n", "i", ".", "j", "s">>) :> {<<"a">>})
     @@ (at(<<"b", ".", "p", "y">>) :> {<<"#", "a">>, Undecodable})
     @@ (at(<<"a", ".", "t", "x", "t">>) :> {<<"a", " ">>})
     @@ (at(Pycache \o <<"/", "c", ".", "p", "y">>) :> {<<"c", " ">>})

\* the path that may be write-protected: "r/a.min.js"
ProtectedPaths ==
    {RootDir \o <<"/">> \o <<"a", ".", "m", "i", "n", ".", "j", "s">>}

\* every choice of some of these files next to the __pycache__ folder,
\* each with one of its contents, the protected path writable or not
ProjectFileSystems ==
    LET texts == UNION {ProjectFiles[path] : path \in DOMAIN ProjectFiles}
        contents(present) ==
            {content \in [present -> texts] :
                \A path \in present : content[path] \in ProjectFiles[path]}
    IN  {[files |-> content, locked |-> locked] :
            content \in UNION {contents(present) :
                present \in {some \in SUBSET DOMAIN ProjectFiles :
                                \E path \in some : In(Pycache, path)}},
            locked \in SUBSET ProtectedPaths}

\* the language filters and the extension filters of a session (<<>> for
\* None); no minifier is registered for "ruby"
LanguageFilters == {<<>>, <<JavaScriptName>>, << <<"r", "u", "b", "y">> >>}
ExtensionFilters == {<<>>, << <<"P", "Y">> >>}

\* the extensions argument of delete_minified_files: absent, or [".js"]
DeleteFilters == {None, << <<".", "j", "s">> >>}

\* the files_to_skip argument: absent, or ["r"]
SkipLists == {<<>>, << <<"r">> >>}

InitProject ==
    /\ project = ProjectMinifier(setup_registry, <<>>)
    /\ fs \in ProjectFileSystems
    /\ \E languages \in LanguageFilters, extensions \in ExtensionFilters :
          op = [name |-> "init", languages |-> languages,
                extensions |-> extensions, history |-> <<>>]
    /\ error = None
    /\ job = NoJob
    /\ code = <<>>
    /\ result = <<>>
    /\ composite = NoComposite
    /\ actions = <<>>
    /\ minifier = NoMinifier
    /\ nextId = 4
    /\ made = NoAction

\* project.minify_project(root, languages, extensions, suffix,
\* files_to_skip), with the filters of the session
MinifyProject ==
    /\ Len(op.history) < MaxRuns
    /\ \E suffix \in Suffixes, files_to_skip \in SkipLists, reversed \in BOOLEAN :
          \E r \in {minify_project(project, fs, RootDir, op.languages,
                                   op.extensions, suffix, files_to_skip,
                                   reversed)} :
              /\ project' = r.self
              /\ fs' = r.fs
              /\ op' = [name |-> "minify_project",
                        languages |-> op.languages,
                        extensions |-> op.extensions,
                        suffix |-> suffix,
                        files_to_skip |-> files_to_skip,
                        returned |-> r.returned,
                        outcome |-> r.outcome,
                        history |-> Append(op.history, "minify_project")]
    /\ UNCHANGED <<code, result, composite, actions, minifier, nextId, made,
                   error, job>>

\* project.delete_minified_files(root, suffix, extensions)
DeleteMinifiedFiles ==
    /\ Len(op.history) < MaxRuns
    /\ \E suffix \in Suffixes, extensions \in DeleteFilters :
          \E r \in {delete_minified_files(project, fs, RootDir, suffix,
                                          extensions)} :
              /\ fs' = r.fs
              /\ op' = [name |-> "delete_minified_files",
                        languages |-> op.languages,
                        extensions |-> op.extensions,
                        suffix |-> suffix,
                        only |-> extensions,
                        returned |-> r.returned,
                        history |-> Append(op.history, "delete_minified_files")]
    /\ UNCHANGED <<code, result, composite, actions, minifier, nextId, made,
                   error, job, project>>

NextProject == MinifyProject \/ DeleteMinifiedFiles

SpecProject == InitProject /\ [][NextProject]_vars

\* the file name carries the marker of suffix: the suffix followed by a
\* dot, as in a derived path (".min." for the default suffix)
CarriesMarker(path, suffix) == In(suffix \o <<".">>, BaseName(path))

\* C19: minify_project returns (processedCount, skippedCount) where
\* processedCount is the number of files whose derived file was written
\* during the run and skippedCount is the number of visited files skipped
\* for either reason: the file carries the suffix marker, or its minified
\* output is identical to the existing derived file and nothing was
\* written.
C19_CountsReturned ==
    op.name = "minify_project" =>
        LET visited == DOMAIN op.outcome
        IN  /\ op.returned[1] =
                  Cardinality({path \in visited : op.outcome[path] = "True"})
            /\ op.returned[2] =
                  Cardinality({path \in visited :
                                  \/ CarriesMarker(path, op.suffix)
                                  \/ op.outcome[path] = "False"})

\* C20: for every suffix, a file that carries the marker of the suffix is
\* not minified, and a second minify_project with the same arguments and
\* unchanged sources writes no file, creates no file and returns
\* processedCount 0.
C20_SecondRunWritesNothing ==
    [][ ( /\ op.name = "minify_project" /\ op'.name = "minify_project"
          /\ Len(op'.history) = Len(op.history) + 1
          /\ op'.suffix = op.suffix
          /\ op'.files_to_skip = op.files_to_skip ) =>
            /\ fs' = fs
            /\ op'.returned[1] = 0
            /\ \A path \in DOMAIN op'.outcome :
                  CarriesMarker(path, op'.suffix) =>
                      op'.outcome[path] \in {"skipped", "ignored"}
      ]_vars

\* the content of a path, None when the file is absent
ContentOf(files, path) ==
    IF path \in DOMAIN files.files THEN files.files[path] ELSE None

\* the outcomes of a file handed to a job
JobOutcomes == {"True", "False", "raised"}

\* C21: when processing one file fails (read or write error), execute
\* re-raises without writing the derived file, and minify_project catches
\* the error and continues: every visited file has its outcome, each
\* other eligible file is processed (its derived file then holds its
\* minified content), the counts are returned, and the failed file is
\* counted neither as processed nor as skipped.
C21_FailureSkipsOneFile ==
    [][ ( /\ op'.name = "minify_project"
          /\ Len(op'.history) = Len(op.history) + 1 ) =>
            LET outcome == op'.outcome
                failed  == {path \in DOMAIN outcome : outcome[path] = "raised"}
                counted == {path \in DOMAIN outcome :
                               outcome[path] \in {"True", "False", "skipped"}}
                derived(path) == get_minified_path(path, op'.suffix)
                minifier_of(path) ==
                    get_minifier_for_extension(project.minifier_registry,
                        Lower(SplitExt(BaseName(path))[2]))
            IN  /\ DOMAIN outcome = Visited(project', fs, RootDir)
                /\ \A path \in failed :
                      ContentOf(fs', derived(path)) = ContentOf(fs, derived(path))
                /\ \A path \in DOMAIN outcome :
                      outcome[path] \in JobOutcomes \ {"raised"} =>
                          ContentOf(fs', derived(path)) =
                              Minify(minifier_of(path), fs.files[path])
                /\ op'.returned[1] =
                       Cardinality({path \in DOMAIN outcome : outcome[path] = "True"})
                /\ op'.returned[1] + op'.returned[2] <= Cardinality(counted)
                /\ failed \cap counted = {}
                /\ error' = None
      ]_vars

\* a run over an unreadable b.py and a.js: b.py failed, a.js was minified
\* and the run returned (1, 0)
C21_Witness ==
    /\ op.name = "minify_project"
    /\ \E py \in DOMAIN op.outcome, js \in DOMAIN op.outcome :
          /\ op.outcome[py] = "raised"
          /\ fs.files[py] = Undecodable
          /\ op.outcome[js] = "True"
    /\ op.returned = <<1, 0>>

\* C22: delete_minified_files(root, suffix, extensions) deletes only
\* files that carry the suffix marker and that minify_project with the
\* same suffix skips as already minified (with an extension filter, only
\* those whose extension is listed), never a file that minify_project
\* hands to a job, leaves every other file as it was, and returns the
\* number of files deleted.
C22_DeletesOnlyMinified ==
    [][ ( /\ op'.name = "delete_minified_files"
          /\ Len(op'.history) = Len(op.history) + 1 ) =>
            LET deleted == DOMAIN fs.files \ DOMAIN fs'.files
                outcome == minify_project(project, fs, RootDir, <<>>, <<>>,
                                          op'.suffix, <<>>, FALSE).outcome
                ext(path) == Lower(SplitExt(BaseName(path))[2])
            IN  /\ \A path \in deleted :
                      /\ CarriesMarker(path, op'.suffix)
                      /\ path \in DOMAIN outcome => outcome[path] = "skipped"
                      /\ op'.only # None =>
                            \E i \in 1..Len(op'.only) : op'.only[i] = ext(path)
                /\ \A path \in DOMAIN fs'.files :
                      path \in DOMAIN fs.files /\ fs'.files[path] = fs.files[path]
                /\ op'.returned = Cardinality(deleted)
      ]_vars

\* C24: with a language filter and/or an extension filter, minify_project
\* minifies only files whose extension is one of a listed language's
\* registered extensions or one of the listed extensions (a language
\* filter naming only languages absent from the registry selects no
\* file); only with no filter are all registered extensions processed.
C24_FiltersSelectFiles ==
    op.name = "minify_project" =>
        LET registry == project.minifier_registry
            of_language(name) ==
                LET found == get_minifier_by_name(registry, name)
                IN  IF found = NoMinifier THEN {}
                    ELSE {Lower(FileExtensions(found)[i]) :
                             i \in 1..Len(FileExtensions(found))}
            selected ==
                IF op.languages = <<>> /\ op.extensions = <<>>
                THEN get_supported_extensions(registry)
                ELSE UNION {of_language(op.languages[i]) :
                               i \in 1..Len(op.languages)}
                     \cup {Lower(Dotted(op.extensions[i])) :
                               i \in 1..Len(op.extensions)}
        IN  \A path \in DOMAIN op.outcome :
                op.outcome[path] \in JobOutcomes =>
                    Lower(SplitExt(BaseName(path))[2]) \in selected

\* C29: the files_to_skip argument of a minify_project call applies to
\* that call only: a later call on the same ProjectMinifier without the
\* argument visits and processes the same files as the same call on a
\* newly constructed ProjectMinifier, and the list of skipped folders of
\* the object has not grown.
C29_SkipListOfOneCall ==
    [][ ( /\ op'.name = "minify_project"
          /\ Len(op'.history) = Len(op.history) + 1
          /\ op'.files_to_skip = <<>> ) =>
            LET fresh == ProjectMinifier(project.minifier_registry, <<>>)
                same  == minify_project(fresh, fs, RootDir, op'.languages,
                                        op'.extensions, op'.suffix, <<>>, FALSE)
            IN  /\ op'.outcome = same.outcome
                /\ op'.returned = same.returned
                /\ fs' = same.fs
                /\ project'.files_to_skip = fresh.files_to_skip
      ]_vars

\* ------------------------------------------------------------------ comment removal in use

\* the comment actions the language minifiers build with both patterns
CommentActions ==
    {CommentRemovalAction(JS_SINGLE, JS_MULTI),
     CommentRemovalAction(PY_SINGLE, PY_MULTI),
     CommentRemovalAction(HTML_SINGLE, HTML_MULTI)}

\* the markers that open and close a block of a multi-line pattern
BlockOpen(pattern) ==
    CASE pattern = JS_MULTI   -> <<"/", "*">>
      [] pattern = PY_MULTI   -> Quotes3
      [] pattern = HTML_MULTI -> <<"<", "!", "-", "-">>
BlockClose(pattern) ==
    CASE pattern = JS_MULTI   -> <<"*", "/">>
      [] pattern = PY_MULTI   -> Quotes3
      [] pattern = HTML_MULTI -> <<"-", "-", ">">>

\* what the texts given to a comment action are made of: its block
\* markers, its single-line marker, a letter and a line end
CommentTokens(action) ==
    {BlockOpen(action.multi_line_pattern), BlockClose(action.multi_line_pattern),
     IF action.single_line_pattern = PY_SINGLE THEN <<"#">> ELSE <<"/", "/">>,
     <<"a">>, <<"\n">>}

InitComments ==
    /\ made \in CommentActions
    /\ code \in TokenTexts(CommentTokens(made), MaxTokens)
    /\ result = <<>>
    /\ op = NoCall
    /\ composite = NoComposite
    /\ actions = <<>>
    /\ minifier = NoMinifier
    /\ nextId = 0
    /\ error = None
    /\ fs = NoFileSystem
    /\ job = NoJob
    /\ project = NoProject

\* made.apply(code)
ApplyCommentRemoval ==
    /\ op.name = "init"
    /\ op' = [name |-> "comment_removal", action |-> made]
    /\ result' = CommentRemovalApply(made, code)
    /\ UNCHANGED <<code, composite, actions, minifier, nextId, made, error,
                   fs, job, project>>

NextComments == ApplyCommentRemoval

SpecComments == InitComments /\ [][NextComments]_vars

\* C25: with both patterns, CommentRemovalAction substitutes the
\* multi-line pattern over the whole text first and applies the
\* single-line pattern to that result: the first block opener that has a
\* close marker after it starts a block removed up to the first close
\* marker, whether the block contains a single-line marker or follows one
\* on its line, and across line ends.
C25_MultiBeforeSingle ==
    op.name = "comment_removal" =>
        LET multi_only  == CommentRemovalAction(None, made.multi_line_pattern)
            single_only == CommentRemovalAction(made.single_line_pattern, None)
            open   == BlockOpen(made.multi_line_pattern)
            close  == BlockClose(made.multi_line_pattern)
            opened == FindLit(code, 1, open, TRUE)
            closed == IF opened = 0 THEN 0
                      ELSE FindLit(code, opened + Len(open), close, TRUE)
        IN  /\ result = CommentRemovalApply(single_only,
                            CommentRemovalApply(multi_only, code))
            /\ closed # 0 =>
                  result = CommentRemovalApply(single_only,
                               SubSeq(code, 1, opened - 1) \o
                               CommentRemovalApply(multi_only,
                                   Drop(code, closed + Len(close))))

\* "///*\n*/": the block opened behind "//" is removed across the line
\* end, then the "//" that is left is removed
C25_Witness ==
    /\ op.name = "comment_removal"
    /\ made.multi_line_pattern = JS_MULTI
    /\ code = <<"/", "/", "/", "*", "\n", "*", "/">>
    /\ result = <<>>

\* a text without its C-style comments within a line, from position p on:
\* the spans from "/*" to the next "*/" of the line and from "//" to the
\* end of the line
RECURSIVE WithoutLineComments(_, _)
WithoutLineComments(text, p) ==
    IF p > Len(text) THEN <<>>
    ELSE LET closed == IF StartsWithAt(text, p, <<"/", "*">>)
                       THEN FindLit(text, p + 2, <<"*", "/">>, FALSE)
                       ELSE 0
         IN  IF closed # 0 THEN WithoutLineComments(text, closed + 2)
             ELSE IF StartsWithAt(text, p, <<"/", "/">>)
             THEN WithoutLineComments(text, EndOfLine(text, p))
             ELSE <<text[p]>> \o WithoutLineComments(text, p + 1)

\* C26: HTMLMinifier removes only comment text: every "<!--"..."-->"
\* span (also across lines) and the C-style comments within a line;
\* the text outside such spans is kept apart from whitespace
\* normalisation, so text that precedes a "*/" with no "/*" before it on
\* its line is kept.
C26_OnlyCommentsRemoved ==
    (op.name = "minify" /\ minifier.kind = "html") =>
        Ink(result) =
            Ink(WithoutLineComments(ReSub(HTML_MULTI, "", code), 1))

\* C30: OperatorSpaceRemovalAction with its default patterns (four
\* sequential passes) is idempotent: applied to its own output it changes
\* nothing, also where characters of different classes are adjacent or
\* separated only by whitespace.
C30_OperatorSpaceRemovalIdempotent ==
    (op.name = "again" /\ op.first = "operators") =>
        /\ op.action.patterns = DefaultPatterns
        /\ result = code

\* the output "(+" of a first call (of "( +", for one) given to a second
\* call, which returns it as it is
C30_Witness ==
    /\ op.name = "again"
    /\ op.first = "operators"
    /\ code = <<"(", "+">>
    /\ result = <<"(", "+">>

\* ------------------------------------------------------------------ two setters at once

\* the minifier with the toggle of a setter assigned
WithToggle(self, setter, value) ==
    CASE setter = "set_preserve_newlines"   -> [self EXCEPT !.preserve_newlines = value]
      [] setter = "set_preserve_docstrings" -> [self EXCEPT !.preserve_docstrings = value]
      [] setter = "set_aggressive"          -> [self EXCEPT !.aggressive = value]

\* the first statement of _create_action
FirstStatement(self) == IF self.kind = "python" THEN "comments" ELSE "list"

\* a plausible bug: the JavaScript operator pass is never appended
CreateActionStatement_noOperators(self, pc, local) ==
    CASE pc = "comments" ->
            [pc |-> "whitespace",
             local |-> <<IF self.preserve_docstrings
                         THEN CommentRemovalAction(PY_SINGLE, None)
                         ELSE CommentRemovalAction(PY_SINGLE, PY_MULTI)>>]
      [] pc = "whitespace" ->
            [pc |-> "operators",
             local |-> local \o <<WhitespaceReductionAction(self.preserve_newlines),
                                  EmptyLineRemovalAction>>]
      [] pc = "list" ->
            [pc |-> "operators",
             local |-> <<CommentRemovalAction(JS_SINGLE, JS_MULTI),
                         WhitespaceReductionAction(self.preserve_newlines),
                         EmptyLineRemovalAction>>]
      [] pc = "operators" ->
            [pc |-> "return",
             local |-> IF self.kind = "python" /\ ~self.preserve_newlines
                       THEN Append(local, OperatorSpaceRemovalAction(<<>>))
                       ELSE local]

\* one statement of _create_action, run at pc with the list local built so
\* far: the next position and the list. PythonMinifier: the test on
\* preserve_docstrings with its append, the two appends that follow, the
\* test on preserve_newlines with its append. JavaScriptMinifier: the list
\* display, the test on aggressive and preserve_newlines with its append.
CreateActionStatement(self, pc, local) ==
    CASE pc = "comments" ->
            [pc |-> "whitespace",
             local |-> <<IF self.preserve_docstrings
                         THEN CommentRemovalAction(PY_SINGLE, None)
                         ELSE CommentRemovalAction(PY_SINGLE, PY_MULTI)>>]
      [] pc = "whitespace" ->
            [pc |-> "operators",
             local |-> local \o <<WhitespaceReductionAction(self.preserve_newlines),
                                  EmptyLineRemovalAction>>]
      [] pc = "list" ->
            [pc |-> "operators",
             local |-> <<CommentRemovalAction(JS_SINGLE, JS_MULTI),
                         WhitespaceReductionAction(self.preserve_newlines),
                         EmptyLineRemovalAction>>]
      [] pc = "operators" ->
            [pc |-> "return",
             local |-> IF (self.kind = "javascript" /\ self.aggressive)
                          \/ ~self.preserve_newlines
                       THEN Append(local, OperatorSpaceRemovalAction(<<>>))
                       ELSE local]

Threads == 1..2

\* the two different setters called at once on a minifier
SetterPairs(kind) ==
    IF kind = "python"
    THEN <<"set_preserve_newlines", "set_preserve_docstrings">>
    ELSE <<"set_preserve_newlines", "set_aggressive">>

\* a minifier of any configuration and two callers, each about to run a
\* different setter with some value
InitConcurrent ==
    /\ minifier \in
          {PythonMinifier(n, d, 0) : n \in BOOLEAN, d \in BOOLEAN}
              \cup {JavaScriptMinifier(n, a, 0) : n \in BOOLEAN, a \in BOOLEAN}
    /\ nextId = 1
    /\ \E values \in [Threads -> BOOLEAN] :
          op = [name |-> "init",
                overlapped |-> FALSE,
                threads |-> [t \in Threads |->
                                [setter |-> SetterPairs(minifier.kind)[t],
                                 value |-> values[t],
                                 pc |-> "test",
                                 local |-> <<>>]]]
    /\ code = <<>>
    /\ result = <<>>
    /\ composite = NoComposite
    /\ actions = <<>>
    /\ made = NoAction
    /\ error = None
    /\ fs = NoFileSystem
    /\ job = NoJob
    /\ project = NoProject

\* a caller is between the test of its setter and its return
Running(thread) == thread.pc \notin {"test", "done"}

\* the call record after a step of caller t that leaves it at pc with the
\* list local; overlapped tells whether a caller ever took a step while
\* the other one was running
Step(t, name, pc, local) ==
    [name |-> name,
     overlapped |-> op.overlapped
                        \/ \E other \in Threads \ {t} : Running(op.threads[other]),
     threads |-> [op.threads EXCEPT ![t].pc = pc, ![t].local = local]]

\* `if self._toggle != preserve:`
TestToggle ==
    \E t \in Threads :
        /\ op.threads[t].pc = "test"
        /\ op' = Step(t, "test",
                      IF ToggleOf(minifier, op.threads[t].setter) # op.threads[t].value
                      THEN "assign" ELSE "done",
                      <<>>)
        /\ UNCHANGED <<code, result, composite, actions, minifier, nextId, made,
                       error, fs, job, project>>

\* `self._toggle = preserve`
AssignToggle ==
    \E t \in Threads :
        /\ op.threads[t].pc = "assign"
        /\ minifier' = WithToggle(minifier, op.threads[t].setter, op.threads[t].value)
        /\ op' = Step(t, "assign", FirstStatement(minifier), <<>>)
        /\ UNCHANGED <<code, result, composite, actions, nextId, made, error,
                       fs, job, project>>

\* a statement of _create_action
BuildAction ==
    \E t \in Threads :
        /\ op.threads[t].pc \in {"comments", "whitespace", "list", "operators"}
        /\ \E next \in {CreateActionStatement(minifier, op.threads[t].pc,
                                              op.threads[t].local)} :
              op' = Step(t, "build", next.pc, next.local)
        /\ UNCHANGED <<code, result, composite, actions, minifier, nextId, made,
                       error, fs, job, project>>

\* `return CompositeMinificationAction(actions)` and the assignment of the
\* value returned to self._action
StoreAction ==
    \E t \in Threads :
        /\ op.threads[t].pc = "return"
        /\ minifier' = [minifier EXCEPT !.action =
                           New(nextId, CompositeMinificationAction(op.threads[t].local))]
        /\ nextId' = nextId + 1
        /\ op' = Step(t, "store", "done", <<>>)
        /\ UNCHANGED <<code, result, composite, actions, made, error, fs, job,
                       project>>

NextConcurrent == TestToggle \/ AssignToggle \/ BuildAction \/ StoreAction

SpecConcurrent == InitConcurrent /\ [][NextConcurrent]_vars

\* both setters have returned
BothReturned == \A t \in Threads : op.threads[t].pc = "done"

\* C28: when two different toggle setters of a PythonMinifier or a
\* JavaScriptMinifier run concurrently, interleaved at statement
\* granularity, then once both have returned the cached composite is the
\* pipeline derived from the final toggle values.
C28_ConcurrentSettersConsistent ==
    BothReturned => minifier.action.actions = Fresh(minifier).action.actions

\* C28, amended: once both setters have returned, each toggle holds the
\* value given to its setter; the cached composite is the pipeline
\* derived from the final toggle values when the two calls did not
\* overlap.
C28_SerializedSettersConsistent ==
    BothReturned =>
        /\ \A t \in Threads :
              ToggleOf(minifier, op.threads[t].setter) = op.threads[t].value
        /\ ~op.overlapped =>
              minifier.action.actions = Fresh(minifier).action.actions

\* set_preserve_newlines(False) and then set_aggressive(True) on
\* JavaScriptMinifier(True, False), one after the other: two composites
\* were built and the second is the cached one
C28_Witness ==
    /\ BothReturned
    /\ ~op.overlapped
    /\ minifier.kind = "javascript"
    /\ ~minifier.preserve_newlines /\ minifier.aggressive
    /\ nextId = 3
    /\ minifier.action.id = 2
    /\ Len(minifier.action.actions) = 4

====
